---- MODULE Spec2Model ----
(***************************************************************************)
(* Model of the drawnix AI image generation pipeline:                      *)
(*   - the task store of hooks/use-ai-generation-tasks.ts                  *)
(*   - the singleton AIGenerationWorker of utils/ai-generation-worker.ts   *)
(*   - the placeholder side-table of utils/ai-generation-placeholder.ts    *)
(* Every action is one atomic segment of the code between two awaits.      *)
(***************************************************************************)
EXTENDS Integers, Sequences, FiniteSets, TLC

\* ------------------------------------------------------------------ bounds
MaxTasks == 2
MaxCalls == 2
MaxNodes == 6

\* --------------------------------------------------------------- constants
\* number of entries of apiPathTemplates
NumTemplates == 5
NoTemplate == 0
\* progress checkpoints, in tenths
NoProgress == 0 - 1

Templates == 1..NumTemplates

OpenRouterUrl == "https://openrouter.ai"
OfficialUrl == "https://generativelanguage.googleapis.com/v1beta"
ProxyUrl == "https://proxy.example"
BaseUrls == {OpenRouterUrl, OfficialUrl, ProxyUrl}

\* further base URLs a user can configure: a relay whose path names a vendor
\* domain, the chat proxy with a path, and a URL that names both domains
RelayOfChatUrl == "https://relay.example/openrouter.ai"
RelayOfOfficialUrl == "https://relay.example/googleapis.com/v1beta"
OpenRouterPathUrl == "https://openrouter.ai/api"
BothUrl == "https://openrouter.ai/googleapis.com"
AllUrls ==
    BaseUrls \cup {RelayOfChatUrl, RelayOfOfficialUrl, OpenRouterPathUrl, BothUrl}

\* String.prototype.includes for the two vendor domains the code looks for
Includes(baseUrl, domain) ==
    \/ domain = "openrouter.ai"
       /\ baseUrl \in {OpenRouterUrl, RelayOfChatUrl, OpenRouterPathUrl, BothUrl}
    \/ domain = "googleapis.com"
       /\ baseUrl \in {OfficialUrl, RelayOfOfficialUrl, BothUrl}

NoUrl == << >>
NoError == [kind |-> "none", status |-> 0, text |-> << >>]
Marker == "PROHIBITED_CONTENT:"

VARIABLES
    tasks,            \* useState<AIGenerationTask[]>: the task store
    processingQueue,  \* AIGenerationWorker.processingQueue
    board,            \* AIGenerationWorker.board is set
    children,         \* board.children: the nodes of the surface, in order
    registry,         \* placeholderRegistry: node id -> task label
    nextNode,         \* next fresh node id of the surface
    pathCache,        \* localStorage[PATH_CACHE_KEY]: baseUrl -> template
    settings,         \* localStorage[SETTINGS_STORAGE_KEY]
    calls,            \* every processTask call made so far, with its position
    cbLog,            \* per task: what onStatusUpdate was called with
    checks            \* every model check of the settings dialog so far

vars == <<tasks, processingQueue, board, children, registry, nextNode,
          pathCache, settings, calls, cbLog, checks>>

TaskIds == 1..MaxTasks

\* ------------------------------------------------------------- task store
NewTask(id, src) ==
    [id |-> id, status |-> "pending", src |-> src, url |-> NoUrl,
     error |-> NoError, completedAt |-> FALSE, progress |-> NoProgress,
     placeholderId |-> 0]

\* { ...task, status, ...updates, ...(status === 'completed' && {completedAt}) }
\* an update that drops the fields passed with the status
MergeStatusOnly(task, status, updates) == [task EXCEPT !.status = status]

MergeTask(task, status, updates) ==
    [k \in DOMAIN task |->
        IF k = "completedAt" /\ status = "completed" THEN TRUE
        ELSE IF k \in DOMAIN updates THEN updates[k]
        ELSE IF k = "status" THEN status
        ELSE task[k]]

\* an update that stores a task for an id it does not find
UpsertTask(T, taskId, status, updates) ==
    IF \E i \in DOMAIN T : T[i].id = taskId
    THEN [i \in DOMAIN T |->
            IF T[i].id = taskId THEN [T[i] EXCEPT !.status = status] ELSE T[i]]
    ELSE Append(T, [NewTask(taskId, << >>) EXCEPT !.status = status])

UpdateTaskStatus(T, taskId, status, updates) ==
    [i \in DOMAIN T |->
        IF T[i].id = taskId THEN MergeTask(T[i], status, updates) ELSE T[i]]

GetTask(T, taskId) ==
    LET hits == SelectSeq(T, LAMBDA task : task.id = taskId)
    IN IF hits = << >> THEN << >> ELSE <<hits[1]>>

\* ---------------------------------------------------------------- surface
\* a surface value s is [ch, reg, nn]: children, registry, next node id
Surface == [ch |-> children, reg |-> registry, nn |-> nextNode]

ErrorLabel(taskId) == 0 - taskId

Register(s, nodeId, label) ==
    [s EXCEPT !.reg = (nodeId :> label) @@ s.reg]

Unregister(s, nodeId) ==
    [s EXCEPT !.reg = [n \in (DOMAIN s.reg) \ {nodeId} |-> s.reg[n]]]

RemoveNode(s, nodeId) ==
    [s EXCEPT !.ch = SelectSeq(s.ch, LAMBDA node : node.id # nodeId)]

InsertNode(s, type, role, taskId) ==
    [s EXCEPT !.ch = Append(s.ch, [id |-> s.nn, type |-> type,
                                   role |-> role, task |-> taskId]),
              !.nn = s.nn + 1]

LastId(s) == s.ch[Len(s.ch)].id

\* DrawTransforms.insertImage, then register the last child
CreateAIPlaceholder(s, taskId) ==
    LET s1 == InsertNode(s, "image", "placeholder", taskId)
    IN Register(s1, LastId(s1), taskId)

\* a search that takes every registered node, whatever task it is registered to
FindAllRegistered(s, taskId) ==
    SelectSeq(s.ch, LAMBDA node : node.id \in DOMAIN s.reg)

FindAllPlaceholdersByTaskId(s, taskId) ==
    SelectSeq(s.ch, LAMBDA node :
        node.id \in DOMAIN s.reg /\ s.reg[node.id] = taskId)

\* ------------------------------------------------------ provider responses
\* A response of the vendor-native API is
\*   [status, parses, errMessage, details, candidates, error]
\* status     the HTTP status
\* parses     response.json() succeeds
\* errMessage error.message of an error body ("" when absent)
\* details    JSON.stringify(error.details) of an error body ("" when absent)
\* candidates data.candidates: each [finishReason, parts], a part being
\*            [camel, camelMime, snake, snakeMime, text] ("" when absent)
\* error      data.error of a success body: "" absent, else its message
\*            ("-" stands for an error object without message)
Ok(status) == status >= 200 /\ status <= 299

Err(kind, status, text) == [kind |-> kind, status |-> status, text |-> text]

Chunks(a, b) ==
    (IF a = "" THEN << >> ELSE <<a>>) \o (IF b = "" THEN << >> ELSE <<b>>)

DataUrl(mime, data) == <<IF mime = "" THEN "image/png" ELSE mime, data>>

\* index of the last part carrying inline data, 0 when none
RECURSIVE LastInline(_, _)
LastInline(parts, i) ==
    IF i > Len(parts) THEN 0
    ELSE IF LastInline(parts, i + 1) # 0 THEN LastInline(parts, i + 1)
    ELSE IF parts[i].camel # "" \/ parts[i].snake # "" THEN i
    ELSE 0

\* index of the first part carrying inline data, 0 when none
RECURSIVE FirstInline(_, _)
FirstInline(parts, i) ==
    IF i > Len(parts) THEN 0
    ELSE IF parts[i].camel # "" \/ parts[i].snake # "" THEN i
    ELSE FirstInline(parts, i + 1)

PartUrl(part) ==
    IF part.camel # "" THEN DataUrl(part.camelMime, part.camel)
    ELSE DataUrl(part.snakeMime, part.snake)

\* parts.find(part => part.text)
RECURSIVE FirstText(_, _)
FirstText(parts, i) ==
    IF i > Len(parts) THEN 0
    ELSE IF parts[i].text # "" THEN i
    ELSE FirstText(parts, i + 1)

ErrorStatusMessage(r) ==
    IF r.parses
    THEN IF r.status = 500 THEN Err("ServerError500", 500, Chunks("", r.details))
         ELSE IF r.status = 429 THEN Err("RateLimited", 429, Chunks("", r.details))
         ELSE IF r.status = 401 THEN Err("KeyInvalid", 401, Chunks("", r.details))
         ELSE IF r.status = 403 THEN Err("KeyForbidden", 403, Chunks("", r.details))
         ELSE IF r.errMessage # ""
              THEN Err("ProviderMessage", 0, Chunks(r.errMessage, r.details))
              ELSE Err("HttpStatus", r.status, Chunks("", r.details))
    ELSE IF r.status = 500 THEN Err("ServerError500Unparsed", 500, << >>)
         ELSE Err("HttpStatus", r.status, << >>)

\* the outcome is [ok, url, error]
Success(url) == [ok |-> TRUE, url |-> url, error |-> NoError]
Failure(error) == [ok |-> FALSE, url |-> NoUrl, error |-> error]

\* a normalisation that looks for an image before it looks at the stop reason
ExtractBeforeStopReason(r) ==
    IF ~Ok(r.status) THEN Failure(ErrorStatusMessage(r))
    ELSE IF ~r.parses THEN Failure(Err("JsonSyntax", 0, << >>))
    ELSE
      LET has == Len(r.candidates) > 0
          cand == r.candidates[1]
          img == FirstInline(cand.parts, 1)
      IN IF has /\ img # 0 THEN Success(PartUrl(cand.parts[img]))
         ELSE IF has /\ cand.finishReason = "SAFETY"
            THEN Failure(Err("SAFETY_BLOCKED:", 0, << >>))
         ELSE IF has /\ cand.finishReason = "PROHIBITED_CONTENT"
            THEN Failure(Err(Marker, 0, << >>))
         ELSE Failure(Err("Malformed", 0, << >>))

ProcessApiResponse(r) ==
    IF ~Ok(r.status) THEN Failure(ErrorStatusMessage(r))
    ELSE IF ~r.parses THEN Failure(Err("JsonSyntax", 0, << >>))
    ELSE
      LET has == Len(r.candidates) > 0
          cand == r.candidates[1]
          img == FirstInline(cand.parts, 1)
          txt == FirstText(cand.parts, 1)
      IN IF has /\ cand.finishReason = "SAFETY"
            THEN Failure(Err("SAFETY_BLOCKED:", 0, << >>))
         ELSE IF has /\ cand.finishReason = "PROHIBITED_CONTENT"
            THEN Failure(Err(Marker, 0, << >>))
         ELSE IF has /\ img # 0 THEN Success(PartUrl(cand.parts[img]))
         ELSE IF r.error # ""
            THEN Failure(Err("ProviderMessage", 0,
                             IF r.error = "-" THEN << >> ELSE <<r.error>>))
         ELSE IF has /\ txt # 0
            THEN Failure(Err("TextOnly", 0, <<cand.parts[txt].text>>))
         ELSE Failure(Err("Malformed", 0, << >>))

\* a catch block that never sees the marker
NoMarker(error) == FALSE

\* errorMessage.includes('PROHIBITED_CONTENT:')
IncludesMarker(error) ==
    \/ error.kind = Marker
    \/ \E i \in DOMAIN error.text : error.text[i] = Marker

\* A response of the chat-completion proxy is
\*   [status, parses, errMessage, choices]
\* choices    data.choices: each [hasMessage, images, content], images the urls
\*            of message.images ("" for an entry without image_url.url) and
\*            content one of "" (absent), "text", "http" (holds an image link),
\*            "data" (holds a base64 data url), "http+data"
OpenRouterResponse(r) ==
    IF ~Ok(r.status)
    THEN Failure(IF r.parses /\ r.errMessage # ""
                 THEN Err("OpenRouterError", 0, <<r.errMessage>>)
                 ELSE Err("OpenRouterError", r.status, << >>))
    ELSE IF ~r.parses THEN Failure(Err("JsonSyntax", 0, << >>))
    ELSE IF Len(r.choices) > 0 /\ r.choices[1].hasMessage
    THEN LET m == r.choices[1]
         IN IF Len(m.images) > 0 /\ m.images[1] # ""
               THEN Success(<<m.images[1]>>)
            ELSE IF m.content \in {"http", "http+data"}
               THEN Success(<<"http-link">>)
            ELSE IF m.content = "data" THEN Success(<<"data-link">>)
            ELSE IF m.content = "text"
               THEN Failure(Err("OpenRouterTextOnly", 0, << >>))
            ELSE Failure(Err("OpenRouterMalformed", 0, << >>))
    ELSE Failure(Err("OpenRouterMalformed", 0, << >>))

\* ------------------------------------------------- answers of the provider
Resp(status, parses, errMessage, details, candidates, error) ==
    [status |-> status, parses |-> parses, errMessage |-> errMessage,
     details |-> details, candidates |-> candidates, error |-> error]

Part(camel, camelMime, snake, snakeMime, text) ==
    [camel |-> camel, camelMime |-> camelMime, snake |-> snake,
     snakeMime |-> snakeMime, text |-> text]

Candidate(finishReason, parts) ==
    [finishReason |-> finishReason, parts |-> parts]

R404 == Resp(404, FALSE, "", "", << >>, "")
RImage(data) ==
    Resp(200, TRUE, "", "", <<Candidate("STOP", <<Part(data, "", "", "", "")>>)>>, "")
RProhibited == Resp(200, TRUE, "", "", <<Candidate("PROHIBITED_CONTENT", << >>)>>, "")
R429 == Resp(429, TRUE, "", "", << >>, "")

ORResp(status, parses, errMessage, choices) ==
    [status |-> status, parses |-> parses, errMessage |-> errMessage,
     choices |-> choices]
ORImage(url) ==
    ORResp(200, TRUE, "", <<[hasMessage |-> TRUE, images |-> <<url>>, content |-> ""]>>)
OR404 == ORResp(404, FALSE, "", << >>)
ORRefused == ORResp(400, TRUE, Marker, << >>)

\* what one fetch can produce: a thrown transport error or a response
Thrown == [throw |-> TRUE, r |-> R404]
Answer(r) == [throw |-> FALSE, r |-> r]

Answers == {Thrown} \cup {Answer(r) : r \in {R404, RImage("U1"), RProhibited, R429}}
ORAnswers == {Thrown} \cup {Answer(r) : r \in {ORImage("U1"), OR404, ORRefused}}
\* the answers tried when several runs interleave
FewORAnswers == {Thrown} \cup {Answer(r) : r \in {ORImage("U1"), ORRefused}}

TransportError == Err("Transport", 0, << >>)
\* the error fetch threw for template k
FetchFailed(k) == Err("Transport", k, << >>)

\* ------------------------------------------------------------------ worker
\* a worker without the guard of lines 75-78
\* a guard that also turns away a call for a task that has ended
ProcessingOrEnded(queue, taskId) ==
    taskId \in queue \/ tasks[taskId].status \in {"completed", "error"}

\* a guard that turns a call away while any task is in flight
AnyProcessing(queue, taskId) == queue # {}

NeverProcessing(queue, taskId) == FALSE

\* processingQueue.has(task.id)
AlreadyProcessing(queue, taskId) == taskId \in queue

\* a worker without the finally block
NoFinally(queue, taskId) == queue

\* finally { this.processingQueue.delete(task.id) }
Finally(queue, taskId) == queue \ {taskId}

NewCall(taskId, during) ==
    [task |-> taskId, pc |-> "start", settled |-> "no", during |-> during,
     baseUrl |-> "", k |-> 0, lastErr |-> NoError, url |-> NoUrl,
     phs |-> << >>, newImageId |-> 0, reqs |-> << >>, found |-> NoTemplate,
     resp |-> Thrown, touched |-> FALSE, sent |-> << >>]

\* the state a synchronous segment works on
Ctx == [T |-> tasks, log |-> cbLog, s |-> Surface]

\* onStatusUpdate(task.id, status, updates): the hook's updateTaskStatus
OnStatusUpdate(ctx, c, taskId, status, updates) ==
    [ctx EXCEPT
        !.T = UpdateTaskStatus(ctx.T, taskId, status, updates),
        !.log = [ctx.log EXCEPT ![taskId] = Append(@,
                    [call |-> c, status |-> status,
                     progress |-> IF "progress" \in DOMAIN updates
                                  THEN updates.progress ELSE NoProgress])]]

\* updatePlaceholderProgress: the surface it leaves
UpdatePlaceholderProgress(s, taskId) ==
    LET all == FindAllPlaceholdersByTaskId(s, taskId)
        RECURSIVE DropDuplicates(_, _)
        DropDuplicates(sf, i) ==
            IF i > Len(all) THEN sf
            ELSE DropDuplicates(RemoveNode(Unregister(sf, all[i].id), all[i].id), i + 1)
    IN IF Len(all) = 0
       THEN LET s1 == CreateAIPlaceholder(s, taskId)
            IN Register(s1, LastId(s1), taskId)
       ELSE DropDuplicates(s, 2)

\* one progress checkpoint: the callback, then the placeholder refresh
Checkpoint(ctx, c, taskId, progress) ==
    LET c1 == OnStatusUpdate(ctx, c, taskId, "generating", [progress |-> progress])
    IN IF board THEN [c1 EXCEPT !.s = UpdatePlaceholderProgress(c1.s, taskId)]
       ELSE c1

NoApiKey == Err("NoApiKey", 0, << >>)
RefusalText == Err("Refused", 0, << >>)

\* the result of a segment: the context and the call's new record
Result(ctx, call) == [ctx |-> ctx, call |-> call]

\* the call's promise resolves; its locals go out of scope
Settled(call) ==
    [call EXCEPT !.pc = "done", !.settled = "resolved", !.k = 0,
                 !.lastErr = NoError, !.phs = << >>]

\* a catch block that reports nothing
CatchSilent(ctx, c, call, error) == Result(ctx, Settled(call))

\* catch (error) { ... } of processTask
Catch(ctx, c, call, error) ==
    IF IncludesMarker(error)
    THEN LET c1 == OnStatusUpdate(ctx, c, call.task, "error", [error |-> RefusalText])
         IN IF board THEN Result(c1, [call EXCEPT !.pc = "refusal"])
            ELSE Result(c1, Settled(call))
    ELSE Result(OnStatusUpdate(ctx, c, call.task, "error", [error |-> error]),
                Settled(call))

\* a run that goes from 0.6 straight to completed
GeneratedSkip(ctx, c, call, url) ==
    Result(OnStatusUpdate(ctx, c, call.task, "completed",
                          [url |-> url, progress |-> 10]),
           Settled([call EXCEPT !.url = url]))

\* lines 136-212 up to the first await: the image URL is known
Generated(ctx, c, call, url) ==
    LET c1 == Checkpoint(ctx, c, call.task, 9)
        c2 == OnStatusUpdate(c1, c, call.task, "completed",
                             [url |-> url, progress |-> 10])
    IN IF board /\ url # NoUrl
       THEN Result(c2, [call EXCEPT !.pc = "wait100", !.url = url])
       ELSE Result(c2, Settled([call EXCEPT !.url = url]))

\* writes a segment's result back; base is the list of calls to update
Commit(base, queue, c, res) ==
    /\ res.ctx.s.nn <= MaxNodes + 1
    /\ tasks' = res.ctx.T
    /\ cbLog' = res.ctx.log
    /\ children' = res.ctx.s.ch
    /\ registry' = res.ctx.s.reg
    /\ nextNode' = res.ctx.s.nn
    /\ calls' = [base EXCEPT ![c] =
                    [res.call EXCEPT !.touched =
                        @ \/ res.ctx.s.ch # children \/ res.ctx.s.reg # registry]]
    /\ processingQueue' =
          IF base[c].settled = "no" /\ res.call.settled = "resolved"
          THEN Finally(queue, res.call.task) ELSE queue

Active(c, pc) == c \in DOMAIN calls /\ calls[c].pc = pc

\* --------------------------------------------------------------- actions
\* the dialog creates the task and its placeholder (createTask,
\* createAIPlaceholder, updateTaskStatus(id, 'pending', {placeholderId}))
CreateTask(src, maxTasks) ==
    /\ Len(tasks) < maxTasks
    /\ LET id == Len(tasks) + 1
           s1 == CreateAIPlaceholder(Surface, id)
       IN /\ s1.nn <= MaxNodes + 1
          /\ tasks' = UpdateTaskStatus(Append(tasks, NewTask(id, src)), id,
                                       "pending", [placeholderId |-> LastId(s1)])
          /\ children' = s1.ch
          /\ registry' = s1.reg
          /\ nextNode' = s1.nn
    /\ UNCHANGED <<processingQueue, board, pathCache, settings, calls, cbLog, checks>>

SetBoard ==
    /\ ~board
    /\ board' = TRUE
    /\ UNCHANGED <<tasks, processingQueue, children, registry, nextNode,
                   pathCache, settings, calls, cbLog, checks>>

\* a processTask that never looks at the API key
SubmitUnchecked(taskId, maxCalls) ==
    /\ Len(calls) < maxCalls
    /\ taskId \in 1..Len(tasks)
    /\ LET c == Len(calls) + 1
           call == [NewCall(taskId, {}) EXCEPT !.baseUrl = settings.baseUrl]
           c2 == Checkpoint(Checkpoint(Ctx, c, taskId, 2), c, taskId, 4)
       IN IF AlreadyProcessing(processingQueue, taskId)
          THEN /\ calls' = Append(calls, [call EXCEPT !.pc = "done", !.settled = "noop"])
               /\ UNCHANGED <<tasks, processingQueue, children, registry,
                              nextNode, cbLog>>
          ELSE Commit(Append(calls, call), processingQueue \cup {taskId}, c,
                      Result(c2, [call EXCEPT !.pc = "wait500"]))
    /\ UNCHANGED <<board, pathCache, settings, checks>>

\* processTask up to its first await (lines 69-107)
Submit(taskId, maxCalls) ==
    /\ Len(calls) < maxCalls
    /\ taskId \in 1..Len(tasks)
    /\ LET c == Len(calls) + 1
           during == {i \in DOMAIN calls :
                        calls[i].task = taskId /\ calls[i].settled = "no"}
           call == [NewCall(taskId, during) EXCEPT !.baseUrl = settings.baseUrl]
           c1 == Checkpoint(Ctx, c, taskId, 2)
           c2 == Checkpoint(c1, c, taskId, 4)
       IN IF AlreadyProcessing(processingQueue, taskId)
          THEN /\ calls' = Append(calls, [call EXCEPT !.pc = "done", !.settled = "noop"])
               /\ UNCHANGED <<tasks, processingQueue, children, registry,
                              nextNode, cbLog>>
          ELSE Commit(Append(calls, call), processingQueue \cup {taskId}, c,
                 IF ~settings.apiKey THEN Catch(c1, c, call, NoApiKey)
                 ELSE Result(c2, [call EXCEPT !.pc = "wait500"]))
    /\ UNCHANGED <<board, pathCache, settings, checks>>

\* what a request has been answered with: nothing yet, a thrown transport
\* error, or the HTTP status of the response
NoAnswer == 0
Threw == 1
AnswerOf(ans) == IF ans.throw THEN Threw ELSE ans.r.status

\* the headers of generateImageWithOpenRouter (lines 307-312)
OpenRouterHeaders == {"Content-Type", "Authorization", "HTTP-Referer", "X-Title"}

\* headers that carry the vendor key whatever the baseUrl
VendorKeyHeaders(baseUrl) == {"Content-Type", "x-goog-api-key"}

\* the headers of generateImageWithGeminiAPI (lines 458-470)
GeminiHeaders(baseUrl) ==
    IF Includes(baseUrl, "googleapis.com")
    THEN {"Content-Type", "x-goog-api-key"}
    ELSE {"Content-Type", "Authorization"}

\* the request a fetch sends: the body's shape and the header names
Sent(call, via) ==
    IF via = "fixed"
    THEN [shape |-> "messages", headers |-> OpenRouterHeaders]
    ELSE [shape |-> "contents", headers |-> GeminiHeaders(call.baseUrl)]

Request(call, via, tpl) ==
    [call EXCEPT !.reqs = Append(@, [via |-> via, tpl |-> tpl, ans |-> NoAnswer]),
                 !.sent = Append(@, Sent(call, via))]

\* the pending request of the call is answered
Answered(call, ans) ==
    [call EXCEPT !.reqs[Len(call.reqs)].ans = AnswerOf(ans), !.resp = ans]

\* a dispatch that uses a cached template whatever the kind of the baseUrl
DispatchCacheFirst(call) ==
    LET cachedTemplate == pathCache[call.baseUrl]
    IN IF cachedTemplate # NoTemplate
       THEN Request([call EXCEPT !.pc = "cachedFetch", !.k = cachedTemplate],
                    "cache", cachedTemplate)
       ELSE IF Includes(call.baseUrl, "openrouter.ai")
       THEN Request([call EXCEPT !.pc = "orFetch"], "fixed", NoTemplate)
       ELSE Request([call EXCEPT !.pc = "probe", !.k = 1], "probe", 1)

\* generateImageWithGemini up to its first fetch (lines 272-290, 505-510, 529-538)
Dispatch(call) ==
    IF Includes(call.baseUrl, "openrouter.ai")
    THEN Request([call EXCEPT !.pc = "orFetch"], "fixed", NoTemplate)
    ELSE LET cachedTemplate == pathCache[call.baseUrl]
         IN IF cachedTemplate # NoTemplate
            THEN Request([call EXCEPT !.pc = "cachedFetch", !.k = cachedTemplate],
                         "cache", cachedTemplate)
            ELSE Request([call EXCEPT !.pc = "probe", !.k = 1], "probe", 1)

\* the 500 ms timer fires: checkpoint 0.6 and the first request (lines 109-134)
Timer500(c) ==
    /\ Active(c, "wait500")
    /\ LET call == calls[c]
       IN Commit(calls, processingQueue, c,
                 Result(Checkpoint(Ctx, c, call.task, 6), Dispatch(call)))
    /\ UNCHANGED <<board, pathCache, settings, checks>>

\* the generated image came back, or the dispatch threw
Outcome(c, call, out) ==
    IF out.ok THEN Generated(Ctx, c, call, out.url)
    ELSE Catch(Ctx, c, call, out.error)

\* a dispatch that probes when the cached path's response cannot be used
CachedResponseRetry(c, ans) ==
    /\ Active(c, "cachedFetch")
    /\ LET call == Answered(calls[c], ans)
           out == ProcessApiResponse(ans.r)
       IN Commit(calls, processingQueue, c,
             IF ans.throw THEN Catch(Ctx, c, call, TransportError)
             ELSE IF ans.r.status # 404 /\ out.ok THEN Outcome(c, call, out)
             ELSE Result(Ctx, Request([call EXCEPT !.pc = "probe", !.k = 1], "probe", 1)))
    /\ UNCHANGED <<board, pathCache, settings, checks>>

\* a dispatch that treats a failed fetch of the cached path as a 404
CachedResponseFallsBack(c, ans) ==
    /\ Active(c, "cachedFetch")
    /\ LET call == Answered(calls[c], ans)
       IN Commit(calls, processingQueue, c,
             IF ~ans.throw /\ ans.r.status # 404
             THEN Outcome(c, call, ProcessApiResponse(ans.r))
             ELSE Result(Ctx, Request([call EXCEPT !.pc = "probe", !.k = 1], "probe", 1)))
    /\ UNCHANGED <<board, pathCache, settings, checks>>

\* the answer to the request against the cached template (lines 510-516)
CachedResponse(c, ans) ==
    /\ Active(c, "cachedFetch")
    /\ LET call == Answered(calls[c], ans)
       IN Commit(calls, processingQueue, c,
             IF ans.throw THEN Catch(Ctx, c, call, TransportError)
             ELSE IF ans.r.status # 404
                  THEN Outcome(c, call, ProcessApiResponse(ans.r))
             ELSE Result(Ctx, Request([call EXCEPT !.pc = "probe", !.k = 1], "probe", 1)))
    /\ UNCHANGED <<board, pathCache, settings, checks>>

\* a loop that keeps the first error it caught
NextTemplateFirstError(c, call, lastErr) ==
    LET kept == IF call.lastErr # NoError THEN call.lastErr ELSE lastErr
    IN IF call.k < NumTemplates
       THEN Result(Ctx, Request([call EXCEPT !.k = call.k + 1, !.lastErr = kept],
                                "probe", call.k + 1))
       ELSE Catch(Ctx, c, [call EXCEPT !.lastErr = kept],
                  IF kept # NoError THEN kept ELSE Err("AllPathsFailed", 0, << >>))

\* a loop that goes one step past the list of templates
NextTemplateOneMore(c, call, lastErr) ==
    IF call.k < NumTemplates + 1
    THEN Result(Ctx, Request([call EXCEPT !.k = call.k + 1, !.lastErr = lastErr],
                             "probe", call.k + 1))
    ELSE Catch(Ctx, c, [call EXCEPT !.lastErr = lastErr],
               IF lastErr # NoError THEN lastErr ELSE Err("AllPathsFailed", 0, << >>))

\* the loop of lines 529-555 moves on after template k
NextTemplate(c, call, lastErr) ==
    IF call.k < NumTemplates
    THEN Result(Ctx, Request([call EXCEPT !.k = call.k + 1, !.lastErr = lastErr],
                             "probe", call.k + 1))
    ELSE Catch(Ctx, c, [call EXCEPT !.lastErr = lastErr],
               IF lastErr # NoError THEN lastErr ELSE Err("AllPathsFailed", 0, << >>))

\* remembers the template of the first probe answered with a non-404 status
Hit(call) == IF call.found = NoTemplate THEN [call EXCEPT !.found = call.k] ELSE call

\* the answer to the probe of template k (lines 534-551)
ProbeResponse(c, ans) ==
    /\ Active(c, "probe")
    /\ LET call == Answered(calls[c], ans)
           out == ProcessApiResponse(ans.r)
           found == ~ans.throw /\ ans.r.status # 404
       IN /\ pathCache' = IF found THEN [pathCache EXCEPT ![call.baseUrl] = call.k]
                          ELSE pathCache
          /\ Commit(calls, processingQueue, c,
                IF ans.throw THEN NextTemplate(c, call, FetchFailed(call.k))
                ELSE IF ~found THEN NextTemplate(c, call, call.lastErr)
                ELSE IF out.ok THEN Generated(Ctx, c, Hit(call), out.url)
                ELSE NextTemplate(c, Hit(call), out.error))
    /\ UNCHANGED <<board, settings, checks>>

\* the answer of the chat-completion proxy (lines 362-422)
OpenRouterAnswer(c, ans) ==
    /\ Active(c, "orFetch")
    /\ LET call == Answered(calls[c], ans)
       IN Commit(calls, processingQueue, c,
             IF ans.throw THEN Catch(Ctx, c, call, TransportError)
             ELSE Outcome(c, call, OpenRouterResponse(ans.r)))
    /\ UNCHANGED <<board, pathCache, settings, checks>>

Ids(nodes) == [i \in DOMAIN nodes |-> nodes[i].id]

NodeIds(nodes) == {nodes[i].id : i \in DOMAIN nodes}

Range(seq) == {seq[i] : i \in DOMAIN seq}

\* the 100 ms timer fires: replacePlaceholderWithImage up to the image load
\* (worker lines 162-175, placeholder lines 1058-1124)
Timer100(c) ==
    /\ Active(c, "wait100")
    /\ LET call == calls[c]
           allPlaceholders == FindAllPlaceholdersByTaskId(Surface, call.task)
       IN Commit(calls, processingQueue, c,
             IF Len(allPlaceholders) = 0
             THEN Result(Ctx, Settled(call))
             ELSE Result(Ctx, [call EXCEPT !.pc = "imgLoad",
                                           !.phs = Ids(allPlaceholders)]))
    /\ UNCHANGED <<board, pathCache, settings, checks>>

RECURSIVE UnregisterAll(_, _, _)
UnregisterAll(s, ids, i) ==
    IF i > Len(ids) THEN s
    ELSE UnregisterAll(Unregister(s, ids[i]), ids, i + 1)

\* a deletion loop that a failed deletion ends
RECURSIVE DeleteUntilFailure(_, _, _, _)
DeleteUntilFailure(s, ids, i, stuck) ==
    IF i > Len(ids) \/ ids[i] \in stuck THEN s
    ELSE DeleteUntilFailure(Unregister(RemoveNode(s, ids[i]), ids[i]),
                            ids, i + 1, stuck)

\* the deletion loop of replacePlaceholderWithImage (lines 1143-1172);
\* stuck: the nodes neither removeElements nor the splice fallback removes
RECURSIVE DeletePlaceholders(_, _, _, _)
DeletePlaceholders(s, ids, i, stuck) ==
    IF i > Len(ids) THEN s
    ELSE DeletePlaceholders(
            Unregister(IF ids[i] \in stuck THEN s ELSE RemoveNode(s, ids[i]), ids[i]),
            ids, i + 1, stuck)

\* drawImageWithResize of ./image, awaited inside img.onload (placeholder
\* lines 1100-1106): the image becomes a new node of the board
DrawImageWithResize(s, taskId) == InsertNode(s, "image", "artifact", taskId)

\* a replace whose failure reaches the catch block of processTask
ImageLoadedReports(c, loads, insertFails, stuck) ==
    /\ Active(c, "imgLoad")
    /\ LET call == calls[c]
           s1 == DrawImageWithResize(Surface, call.task)
           s2 == DeletePlaceholders(s1, call.phs, 1, stuck)
       IN Commit(calls, processingQueue, c,
             IF ~loads \/ insertFails
             THEN Catch([Ctx EXCEPT !.s = UnregisterAll(Surface, call.phs, 1)],
                        c, call, TransportError)
             ELSE Result([Ctx EXCEPT !.s = s2],
                         [Settled(call) EXCEPT
                             !.newImageId = LastId(s1),
                             !.phs = call.phs,
                             !.pc = IF Len(tasks[call.task].src) > 0
                                    THEN "arrowTimer" ELSE "done"]))
    /\ UNCHANGED <<board, pathCache, settings, checks>>

\* img.onload / img.onerror and the rest of replacePlaceholderWithImage
\* (placeholder lines 1091-1197), then worker lines 170-212 and the finally
ImageLoaded(c, loads, insertFails, stuck) ==
    /\ Active(c, "imgLoad")
    /\ LET call == calls[c]
           s1 == DrawImageWithResize(Surface, call.task)
           newImageId == LastId(s1)
           s2 == DeletePlaceholders(s1, call.phs, 1, stuck)
           src == tasks[call.task].src
       IN Commit(calls, processingQueue, c,
             IF ~loads \/ insertFails
             THEN Result([Ctx EXCEPT !.s = UnregisterAll(Surface, call.phs, 1)],
                         Settled(call))
             ELSE Result([Ctx EXCEPT !.s = s2],
                         [Settled(call) EXCEPT
                             !.newImageId = newImageId,
                             !.phs = call.phs,
                             !.pc = IF Len(src) > 0 THEN "arrowTimer" ELSE "done"]))
    /\ UNCHANGED <<board, pathCache, settings, checks>>

\* img.onload alone (placeholder lines 1097-1109): the image is drawn and the
\* load promise resolved; the caller is still suspended at its await
OnLoad(c) ==
    /\ Active(c, "imgLoad")
    /\ Commit(calls, processingQueue, c,
              Result([Ctx EXCEPT !.s = DrawImageWithResize(Surface, calls[c].task)],
                     [calls[c] EXCEPT !.pc = "drawn"]))
    /\ UNCHANGED <<board, pathCache, settings, checks>>

\* replacePlaceholderWithImage resumed after `await imageLoadPromise`
\* (placeholder lines 1124-1197): the new image is taken to be the last child
\* of the board as it is now; then worker lines 170-212 and the finally
AwaitImageLoad(c, stuck) ==
    /\ Active(c, "drawn")
    /\ LET call == calls[c]
           newImageId == LastId(Surface)
           s2 == DeletePlaceholders(Surface, call.phs, 1, stuck)
           src == tasks[call.task].src
       IN Commit(calls, processingQueue, c,
             Result([Ctx EXCEPT !.s = s2],
                    [Settled(call) EXCEPT
                        !.newImageId = newImageId,
                        !.phs = call.phs,
                        !.pc = IF Len(src) > 0 THEN "arrowTimer" ELSE "done"]))
    /\ UNCHANGED <<board, pathCache, settings, checks>>

\* replacePlaceholderWithImage of utils/ai-generation-placeholder.ts (292-377),
\* synchronous: the first placeholder found is the only one replaced; phs
\* keeps every placeholder registered for the task when it was called
ReplaceFirst(c) ==
    /\ Active(c, "wait100")
    /\ LET call == calls[c]
           all == FindAllPlaceholdersByTaskId(Surface, call.task)
           s1 == InsertNode(Surface, "image", "artifact", call.task)
           newImageId == LastId(s1)
           s2 == Unregister(RemoveNode(s1, all[1].id), all[1].id)
           src == tasks[call.task].src
       IN Commit(calls, processingQueue, c,
             IF Len(all) = 0
             THEN Result(Ctx, Settled(call))
             ELSE Result([Ctx EXCEPT !.s = s2],
                         [Settled(call) EXCEPT
                             !.newImageId = newImageId,
                             !.phs = Ids(all),
                             !.pc = IF Len(src) > 0 THEN "arrowTimer" ELSE "done"]))
    /\ UNCHANGED <<board, pathCache, settings, checks>>

\* createAIPlaceholder called for an existing task
AddPlaceholder(taskId) ==
    /\ LET s1 == CreateAIPlaceholder(Surface, taskId)
       IN /\ s1.nn <= MaxNodes + 1
          /\ children' = s1.ch
          /\ registry' = s1.reg
          /\ nextNode' = s1.nn
    /\ UNCHANGED <<tasks, processingQueue, board, pathCache, settings, calls,
                   cbLog, checks>>

\* updateTaskStatus called from outside a run, for any id
RECURSIVE LogSize(_, _)
LogSize(log, t) == IF t = 0 THEN 0 ELSE Len(log[t]) + LogSize(log, t - 1)

StoreUpdate(taskId, status, updates) ==
    /\ LogSize(cbLog, MaxTasks) < MaxCalls
    /\ LET c1 == OnStatusUpdate(Ctx, 0, taskId, status, updates)
       IN tasks' = c1.T /\ cbLog' = c1.log
    /\ UNCHANGED <<processingQueue, board, children, registry, nextNode,
                   pathCache, settings, calls, checks>>

\* the user adds an image to the board (mod+u)
AddImage ==
    /\ LET s1 == InsertNode(Surface, "image", "user", 0)
       IN /\ s1.nn <= MaxNodes + 1
          /\ children' = s1.ch
          /\ nextNode' = s1.nn
    /\ UNCHANGED <<tasks, processingQueue, board, registry, pathCache, settings,
                   calls, cbLog, checks>>

\* the user confirms the clean-board dialog: every node leaves the surface,
\* the registry is not told
CleanBoard ==
    /\ children # << >>
    /\ children' = << >>
    /\ UNCHANGED <<tasks, processingQueue, board, registry, nextNode, pathCache,
                   settings, calls, cbLog, checks>>

IsImage(s, nodeId) ==
    \E i \in DOMAIN s.ch : s.ch[i].id = nodeId /\ s.ch[i].type = "image"

\* a connector loop that the first failing insertion ends
RECURSIVE ConnectUntilFailure(_, _, _, _, _)
ConnectUntilFailure(s, nodes, i, src, failing) ==
    IF i > Len(nodes) THEN s
    ELSE IF nodes[i].type = "image" /\ (\E j \in DOMAIN src : src[j] = nodes[i].id)
    THEN IF nodes[i].id \in failing THEN s
         ELSE ConnectUntilFailure(InsertNode(s, "line", "connector", nodes[i].id),
                                  nodes, i + 1, src, failing)
    ELSE ConnectUntilFailure(s, nodes, i + 1, src, failing)

\* createSmartArrowConnection (lines 1204-1373): one line per source image found
RECURSIVE ConnectAll(_, _, _, _, _)
ConnectAll(s, nodes, i, src, failing) ==
    IF i > Len(nodes) THEN s
    ELSE ConnectAll(
            IF nodes[i].type = "image" /\ (\E j \in DOMAIN src : src[j] = nodes[i].id)
               /\ nodes[i].id \notin failing
            THEN InsertNode(s, "line", "connector", nodes[i].id) ELSE s,
            nodes, i + 1, src, failing)

CreateSmartArrowConnection(s, src, targetImageId, failing) ==
    IF Len(src) = 0 \/ targetImageId = 0 THEN s
    ELSE IF ~\E j \in DOMAIN src : IsImage(s, src[j]) THEN s
    ELSE IF ~IsImage(s, targetImageId) THEN s
    ELSE ConnectAll(s, s.ch, 1, src, failing)

\* the arrow timer of lines 185-198 fires, after processTask has settled
ArrowTimer(c, failing) ==
    /\ Active(c, "arrowTimer")
    /\ LET call == calls[c]
           src == tasks[call.task].src
       IN Commit(calls, processingQueue, c,
             Result([Ctx EXCEPT !.s = CreateSmartArrowConnection(
                                         Surface, src, call.newImageId, failing)],
                    [call EXCEPT !.pc = "done"]))
    /\ UNCHANGED <<board, pathCache, settings, checks>>

\* a removal loop that stops after the first placeholder
RemoveFirstOnly(s, ids, i, stuck) ==
    IF i > Len(ids) \/ i > 1 THEN s
    ELSE Unregister(RemoveNode(s, ids[i]), ids[i])

\* removal loop of showProhibitedContentPlaceholder (lines 1711-1720):
\* a node whose removeElements throws stays, and stays registered
RECURSIVE RemoveExisting(_, _, _, _)
RemoveExisting(s, ids, i, stuck) ==
    IF i > Len(ids) THEN s
    ELSE RemoveExisting(
            IF ids[i] \in stuck THEN s ELSE Unregister(RemoveNode(s, ids[i]), ids[i]),
            ids, i + 1, stuck)

ShowProhibitedContentPlaceholder(s, taskId, insertFails, stuck) ==
    LET existing == Ids(FindAllPlaceholdersByTaskId(s, taskId))
        s1 == RemoveExisting(s, existing, 1, stuck)
        s2 == InsertNode(s1, "image", "refusal", taskId)
    IN IF insertFails THEN s1
       ELSE Register(s2, LastId(s2), ErrorLabel(taskId))

\* the dynamic import resolved: the refusal visual, then the finally
\* (worker lines 229-248)
Refusal(c, insertFails, stuck) ==
    /\ Active(c, "refusal")
    /\ LET call == calls[c]
       IN Commit(calls, processingQueue, c,
             Result([Ctx EXCEPT !.s = ShowProhibitedContentPlaceholder(
                                         Surface, call.task, insertFails, stuck)],
                    Settled(call)))
    /\ UNCHANGED <<board, pathCache, settings, checks>>

\* ------------------------------------------------- settings dialog
\* the template of the chat-completion path, after the five of the worker
ChatTemplate == NumTemplates + 1

\* apiPathTemplates of checkModelAvailability, by the worker's numbering
DialogTemplates(baseUrl) ==
    IF Includes(baseUrl, "openrouter.ai") THEN <<ChatTemplate>>
    ELSE <<2, 1, 3, 4, 5>>

\* the dialog's processApiResponse: available only on status 200
Available(ans) == ~ans.throw /\ ans.r.status = 200

NewCheck(baseUrl, pc, k, tpl) ==
    [baseUrl |-> baseUrl, pc |-> pc, k |-> k, tpl |-> tpl,
     hit |-> NoTemplate, available |-> FALSE]

\* handleTestModel up to the first fetch of checkModelAvailability
StartCheck(baseUrl, maxChecks) ==
    /\ Len(checks) < maxChecks
    /\ LET cachedTemplate == pathCache[baseUrl]
       IN checks' = Append(checks,
             IF cachedTemplate # NoTemplate
             THEN NewCheck(baseUrl, "cached", 0, cachedTemplate)
             ELSE NewCheck(baseUrl, "probe", 1, DialogTemplates(baseUrl)[1]))
    /\ UNCHANGED <<tasks, processingQueue, board, children, registry, nextNode,
                   pathCache, settings, calls, cbLog>>

\* the loop of settings-dialog lines 246-272 moves on after template k
NextDialogTemplate(check) ==
    LET list == DialogTemplates(check.baseUrl)
    IN IF check.k < Len(list)
       THEN [check EXCEPT !.pc = "probe", !.k = check.k + 1, !.tpl = list[check.k + 1]]
       ELSE [check EXCEPT !.pc = "done"]

\* the answer to the dialog's request against the cached template (212-225)
CheckCached(i, ans) ==
    /\ i \in DOMAIN checks
    /\ checks[i].pc = "cached"
    /\ LET check == checks[i]
       IN checks' = [checks EXCEPT ![i] =
             IF ~ans.throw /\ ans.r.status # 404
             THEN [check EXCEPT !.pc = "done", !.hit = check.tpl,
                                !.available = Available(ans)]
             ELSE NextDialogTemplate(check)]
    /\ UNCHANGED <<tasks, processingQueue, board, children, registry, nextNode,
                   pathCache, settings, calls, cbLog>>

\* a probe that caches its template before looking at the status
CheckProbeBlind(i, ans) ==
    /\ i \in DOMAIN checks
    /\ checks[i].pc = "probe"
    /\ LET check == checks[i]
           found == ~ans.throw /\ ans.r.status # 404
       IN /\ pathCache' = [pathCache EXCEPT ![check.baseUrl] = check.tpl]
          /\ checks' = [checks EXCEPT ![i] =
                IF found
                THEN [check EXCEPT !.pc = "done", !.hit = check.tpl,
                                   !.available = Available(ans)]
                ELSE NextDialogTemplate(check)]
    /\ UNCHANGED <<tasks, processingQueue, board, children, registry, nextNode,
                   settings, calls, cbLog>>

\* the answer to the dialog's probe of a template (246-272)
CheckProbe(i, ans) ==
    /\ i \in DOMAIN checks
    /\ checks[i].pc = "probe"
    /\ LET check == checks[i]
           found == ~ans.throw /\ ans.r.status # 404
       IN /\ pathCache' = IF found THEN [pathCache EXCEPT ![check.baseUrl] = check.tpl]
                          ELSE pathCache
          /\ checks' = [checks EXCEPT ![i] =
                IF found
                THEN [check EXCEPT !.pc = "done", !.hit = check.tpl,
                                   !.available = Available(ans)]
                ELSE NextDialogTemplate(check)]
    /\ UNCHANGED <<tasks, processingQueue, board, children, registry, nextNode,
                   settings, calls, cbLog>>

\* ------------------------------------------------------------ specification
UserImage == [id |-> 1, type |-> "image", role |-> "user", task |-> 0]

SrcChoices == {<< >>, <<1>>}

InitWith(configs) ==
    /\ tasks = << >>
    /\ processingQueue = {}
    /\ board = FALSE
    /\ children = <<UserImage>>
    /\ registry = << >>
    /\ nextNode = 2
    /\ settings \in configs
    /\ calls = << >>
    /\ cbLog = [t \in TaskIds |-> << >>]
    /\ checks = << >>

\* the steps of a run on the surface, after the image URL or the error is known
SurfaceSteps ==
    \/ \E c \in DOMAIN calls : Timer100(c)
    \/ \E c \in DOMAIN calls, l \in BOOLEAN, f \in BOOLEAN :
          \E st \in SUBSET Range(calls[c].phs) : ImageLoaded(c, l, f, st)
    \/ \E c \in DOMAIN calls :
          \E fl \in SUBSET Range(tasks[calls[c].task].src) : ArrowTimer(c, fl)
    \/ \E c \in DOMAIN calls, f \in BOOLEAN :
          \E st \in SUBSET Range(Ids(FindAllPlaceholdersByTaskId(Surface, calls[c].task))) :
             Refusal(c, f, st)

\* Spec: several tasks and calls at once, against the chat-completion proxy
Init ==
    /\ InitWith([apiKey : BOOLEAN, baseUrl : {OpenRouterUrl}])
    /\ pathCache = [b \in BaseUrls |-> NoTemplate]

Next ==
    \/ \E src \in SrcChoices : CreateTask(src, MaxTasks)
    \/ SetBoard
    \/ \E t \in TaskIds : Submit(t, MaxCalls)
    \/ \E c \in DOMAIN calls : Timer500(c)
    \/ \E c \in DOMAIN calls, a \in FewORAnswers : OpenRouterAnswer(c, a)
    \/ SurfaceSteps

Spec == Init /\ [][Next]_vars

\* SpecRun: one task and one run of it, under every configuration, starting
\* from any path cache an earlier session can have left in localStorage
InitRun ==
    /\ InitWith([apiKey : BOOLEAN, baseUrl : BaseUrls])
    /\ pathCache \in {[b \in BaseUrls |-> IF b = settings.baseUrl THEN k ELSE NoTemplate] :
                          k \in {NoTemplate} \cup Templates}

NextRun ==
    \/ \E src \in SrcChoices : tasks = << >> /\ CreateTask(src, MaxTasks)
    \/ SetBoard
    \/ calls = << >> /\ Submit(1, MaxCalls)
    \/ \E c \in DOMAIN calls : Timer500(c)
    \/ \E c \in DOMAIN calls, a \in Answers : CachedResponse(c, a)
    \/ \E c \in DOMAIN calls, a \in Answers : ProbeResponse(c, a)
    \/ \E c \in DOMAIN calls, a \in ORAnswers : OpenRouterAnswer(c, a)
    \/ SurfaceSteps

SpecRun == InitRun /\ [][NextRun]_vars

\* SpecCache: dispatches against a vendor-native proxy, one per task, and model
\* checks of the settings dialog share the path cache, which starts empty;
\* MaxOps bounds the dispatches and checks made altogether
MaxOps == MaxCalls + 1

PathAnswers == {Answer(R404), Answer(RImage("U1"))}
DialogAnswers == {Thrown, Answer(R404), Answer(RImage("U1"))}

InitCache ==
    /\ InitWith([apiKey : {TRUE}, baseUrl : {ProxyUrl}])
    /\ pathCache = [b \in BaseUrls |-> NoTemplate]

NextCache ==
    \/ Len(tasks) = Len(calls) /\ CreateTask(<< >>, MaxTasks)
    \/ Submit(Len(calls) + 1, MaxOps - Len(checks))
    \/ \E c \in DOMAIN calls : Timer500(c)
    \/ \E c \in DOMAIN calls, a \in PathAnswers : CachedResponse(c, a)
    \/ \E c \in DOMAIN calls, a \in PathAnswers : ProbeResponse(c, a)
    \/ \E b \in {ProxyUrl, OpenRouterUrl} : StartCheck(b, MaxOps - Len(calls))
    \/ \E i \in DOMAIN checks, a \in DialogAnswers : CheckCached(i, a)
    \/ \E i \in DOMAIN checks, a \in DialogAnswers : CheckProbe(i, a)

SpecCache == InitCache /\ [][NextCache]_vars

\* ---------------------------------------------------------------- claims
\* the callbacks call c made for task t, in order
CallLog(t, c) == SelectSeq(cbLog[t], LAMBDA e : e.call = c)

Terminal == {"completed", "error"}

\* C1: a processTask call made while another call for the same task id is
\* still unsettled is a no-op (no callback, no provider request, no change of
\* the surface or of the store), and a task id never has two running calls.
C1_SingleFlight ==
    /\ \A c \in DOMAIN calls :
          calls[c].during # {} =>
             /\ calls[c].settled = "noop"
             /\ calls[c].reqs = << >>
             /\ ~calls[c].touched
             /\ CallLog(calls[c].task, c) = << >>
    /\ \A t \in TaskIds :
          Cardinality({c \in DOMAIN calls :
                          calls[c].task = t /\ calls[c].settled = "no"}) <= 1

\* a second call arrived during the first, which went on to its request
C1_Witness ==
    \E c \in DOMAIN calls :
       /\ calls[c].during # {}
       /\ \E d \in calls[c].during : Len(calls[d].reqs) = 1

\* C2: a task id is in processingQueue exactly while an accepted call for it
\* has not settled, whichever way the call ends.
C2_InFlight ==
    \A t \in TaskIds :
       t \in processingQueue <=>
          \E c \in DOMAIN calls : calls[c].task = t /\ calls[c].settled = "no"

\* an accepted call settled through the early return after a failed replace,
\* and the id left the set
C2_Witness ==
    \E c \in DOMAIN calls :
       /\ calls[c].settled = "resolved"
       /\ calls[c].url # NoUrl
       /\ calls[c].newImageId = 0
       /\ board
       /\ calls[c].task \notin processingQueue

\* C3: every accepted call resolves, whatever failed inside it, and the last
\* status it reported through the callback is completed or error.
C3_NeverRejects ==
    \A c \in DOMAIN calls :
       /\ calls[c].settled \in {"no", "noop", "resolved"}
       /\ calls[c].settled = "resolved" =>
             LET log == CallLog(calls[c].task, c)
             IN log # << >> /\ log[Len(log)].status \in Terminal

\* a run that found no usable template resolved with an error
C3_Witness ==
    \E c \in DOMAIN calls :
       /\ calls[c].settled = "resolved"
       /\ Len(calls[c].reqs) >= NumTemplates
       /\ tasks[calls[c].task].status = "error"

Transitions ==
    {<<"pending", "generating">>, <<"generating", "completed">>,
     <<"generating", "error">>}

\* C4: the statuses written for a task follow pending -> generating ->
\* completed | error, and nothing is written after completed or error.
C4_StatusTransitions ==
    \A t \in DOMAIN tasks :
       /\ \A i \in DOMAIN cbLog[t] :
             LET prev == IF i = 1 THEN "pending" ELSE cbLog[t][i - 1].status
                 next == cbLog[t][i].status
             IN prev = next \/ <<prev, next>> \in Transitions
       /\ tasks[t].status =
             IF cbLog[t] = << >> THEN "pending" ELSE cbLog[t][Len(cbLog[t])].status

\* C5: the progress values reported with status generating for one task
\* never decrease, over all the runs of the task.
C5_ProgressMonotone ==
    \A t \in DOMAIN tasks :
       LET g == SelectSeq(cbLog[t], LAMBDA e : e.status = "generating")
       IN \A i, j \in DOMAIN g : i <= j => g[i].progress <= g[j].progress

Checkpoints == <<2, 4, 6, 9>>

\* C6: one run reports 0.2, 0.4, 0.6, 0.9 as generating and then 1.0 as
\* completed, or a prefix of the four followed by one error; it sends its
\* first request only after 0.6 and reports 0.9 only once it holds the image.
C6_Checkpoints ==
    \A c \in DOMAIN calls :
       LET log == CallLog(calls[c].task, c)
           g == SelectSeq(log, LAMBDA e : e.status = "generating")
           n == Len(log)
       IN /\ Len(g) <= Len(Checkpoints)
          /\ \A i \in DOMAIN g : g[i].progress = Checkpoints[i] /\ log[i] = g[i]
          /\ n <= Len(g) + 1
          /\ n = Len(g) + 1 =>
                \/ log[n].status = "error"
                \/ /\ log[n].status = "completed"
                   /\ log[n].progress = 10
                   /\ Len(g) = Len(Checkpoints)
          /\ calls[c].settled = "resolved" => n = Len(g) + 1
          /\ calls[c].reqs # << >> => Len(g) >= 3
          /\ Len(g) = Len(Checkpoints) => calls[c].url # NoUrl

\* a run completed on the third probed template with all five reports
C6_Witness ==
    \E c \in DOMAIN calls :
       /\ Len(CallLog(calls[c].task, c)) = 5
       /\ Len(calls[c].reqs) = 3

\* C7: a task has completedAt exactly when its status is completed or error.
C7_CompletedAt ==
    \A t \in DOMAIN tasks :
       tasks[t].completedAt <=> tasks[t].status \in Terminal

\* C8: a task has a generated image URL only while completed and an error
\* message only while in error.
C8_ResultFields ==
    \A t \in DOMAIN tasks :
       /\ tasks[t].url # NoUrl => tasks[t].status = "completed"
       /\ tasks[t].error # NoError => tasks[t].status = "error"

\* C9: a run of a task without source images whose request produced the
\* image URL U leaves the task completed, with URL U and progress 1.0.
C9_Success ==
    \A c \in DOMAIN calls :
       LET task == tasks[calls[c].task]
       IN task.src = << >> /\ calls[c].url # NoUrl /\ calls[c].settled = "resolved" =>
             /\ task.status = "completed"
             /\ task.url = calls[c].url
             /\ task.progress = 10

\* the run of a task without source images got its image and settled
C9_Witness ==
    \E c \in DOMAIN calls :
       /\ tasks[calls[c].task].src = << >>
       /\ calls[c].url # NoUrl
       /\ calls[c].settled = "resolved"
       /\ board

\* C10: a run that starts probing with an empty cache asks for the templates
\* in order, stops at the first answer that is not 404, and leaves exactly
\* that template in the cache.
C10_ProbeStops ==
    \A c \in DOMAIN calls :
       LET reqs == calls[c].reqs
       IN reqs # << >> /\ reqs[1].via = "probe" =>
             /\ \A i \in DOMAIN reqs : reqs[i].via = "probe" /\ reqs[i].tpl = i
             /\ calls[c].found # NoTemplate =>
                   /\ Len(reqs) = calls[c].found
                   /\ pathCache[calls[c].baseUrl] = calls[c].found

\* the request was answered with a status other than 404
PathExists(ans) == ans \notin {NoAnswer, Threw, 404}

\* the request was answered with 404 or fetch threw
PathFailed(ans) == ans \in {Threw, 404}

\* the probe requests of a call, in the order they were made
Probes(call) == SelectSeq(call.reqs, LAMBDA q : q.via = "probe")

\* the cache entry the dispatch of the call found
EntryFound(call) ==
    IF call.reqs[1].via = "cache" THEN call.reqs[1].tpl ELSE NoTemplate

\* SpecNormalize: one run whose single request, against a cached template or
\* the chat-completion path, is answered with any response of a bounded set
PartKinds ==
    {Part("A", "", "", "", ""), Part("", "", "B", "image/jpeg", ""),
     Part("", "", "", "", "T"), Part("", "", "", "", "V"),
     Part("C", "image/webp", "D", "", "T")}

PartLists ==
    {<< >>} \cup {<<p>> : p \in PartKinds} \cup {<<p, q>> : p, q \in PartKinds}

FinishReasons == {"STOP", "SAFETY", "PROHIBITED_CONTENT"}

ErrorStatuses == {400, 401, 403, 429, 500, 503}

NativeResponses ==
    {Resp(200, TRUE, "", "", cs, e) :
        cs \in {<< >>} \cup {<<Candidate(f, ps)>> : f \in FinishReasons, ps \in PartLists},
        e \in {"", "-", "e"}}
    \cup {Resp(st, TRUE, m, d, << >>, "") :
              st \in ErrorStatuses, m \in {"", "m"}, d \in {"", "d"}}
    \cup {Resp(st, FALSE, "", "", << >>, "") : st \in ErrorStatuses \cup {200}}

ChatResponses ==
    {ORResp(200, TRUE, "", cs) :
        cs \in {<< >>} \cup
               {<<[hasMessage |-> h, images |-> im, content |-> ct]>> :
                   h \in BOOLEAN,
                   im \in {<< >>, <<"">>, <<"U1">>, <<"", "U2">>, <<"U1", "U2">>},
                   ct \in {"", "text", "http", "data", "http+data"}}}
    \cup {ORResp(st, TRUE, m, << >>) : st \in ErrorStatuses, m \in {"", "m"}}
    \cup {ORResp(st, FALSE, "", << >>) : st \in ErrorStatuses \cup {200}}

InitNormalize ==
    /\ InitWith([apiKey : {TRUE}, baseUrl : {ProxyUrl, OpenRouterUrl}])
    /\ pathCache = [b \in BaseUrls |-> IF b = ProxyUrl THEN 1 ELSE NoTemplate]

NextNormalize ==
    \/ tasks = << >> /\ CreateTask(<< >>, MaxTasks)
    \/ calls = << >> /\ Submit(1, MaxCalls)
    \/ \E c \in DOMAIN calls : Timer500(c)
    \/ \E c \in DOMAIN calls, r \in NativeResponses : CachedResponse(c, Answer(r))
    \/ \E c \in DOMAIN calls, r \in ChatResponses : OpenRouterAnswer(c, Answer(r))

SpecNormalize == InitNormalize /\ [][NextNormalize]_vars

\* C11: when the request against the cached template is answered with a
\* status other than 404, the dispatch makes no other request and leaves the
\* cache entry as it was.
C11_CachedOnly ==
    \A c \in DOMAIN calls :
       LET reqs == calls[c].reqs
       IN reqs # << >> /\ reqs[1].via = "cache" /\ PathExists(reqs[1].ans) =>
             /\ Len(reqs) = 1
             /\ pathCache[calls[c].baseUrl] = reqs[1].tpl

\* the cached path answered 429: the run ended in error after one request
C11_Witness ==
    \E c \in DOMAIN calls :
       /\ calls[c].reqs = <<[via |-> "cache", tpl |-> 2, ans |-> 429]>>
       /\ calls[c].settled = "resolved"
       /\ tasks[calls[c].task].status = "error"

\* C12: after a 404 on the cached template the same dispatch probes the
\* templates in order; the entry stays until a probe is answered with a
\* status other than 404, becomes the first such template, and is unchanged
\* when every probe fails.
C12_Fallback ==
    \A c \in DOMAIN calls :
       LET reqs == calls[c].reqs
           probes == Probes(calls[c])
           hits == {i \in DOMAIN probes : PathExists(probes[i].ans)}
       IN reqs # << >> /\ reqs[1].via = "cache" /\ reqs[1].ans = 404 =>
             /\ Len(reqs) = Len(probes) + 1
             /\ probes # << >>
             /\ \A i \in DOMAIN probes : probes[i].tpl = i
             /\ pathCache[calls[c].baseUrl] =
                   IF hits = {} THEN reqs[1].tpl
                   ELSE probes[CHOOSE i \in hits : \A j \in hits : i <= j].tpl

\* C14: when every template is answered with 404 or a thrown fetch, the task
\* ends in error with the last thrown error (the generic one when nothing was
\* thrown) and the cache keeps what it held.
C14_Exhausted ==
    \A c \in DOMAIN calls :
       LET probes == Probes(calls[c])
           thrown == {i \in DOMAIN probes : probes[i].ans = Threw}
           task == tasks[calls[c].task]
       IN Len(probes) = NumTemplates
          /\ (\A i \in DOMAIN probes : PathFailed(probes[i].ans)) =>
             /\ calls[c].settled = "resolved"
             /\ task.status = "error"
             /\ task.error =
                   IF thrown = {} THEN Err("AllPathsFailed", 0, << >>)
                   ELSE FetchFailed(CHOOSE i \in thrown : \A j \in thrown : j <= i)
             /\ pathCache[calls[c].baseUrl] = EntryFound(calls[c])

\* fetch threw on two templates, the last of them not the last template
C14_Witness ==
    \E c \in DOMAIN calls :
       LET probes == Probes(calls[c])
       IN /\ Len(probes) = NumTemplates
          /\ \A i \in DOMAIN probes : PathFailed(probes[i].ans)
          /\ probes[1].ans = Threw
          /\ probes[3].ans = Threw
          /\ probes[4].ans = 404
          /\ probes[5].ans = 404

\* C15: a probe answered with an error status other than 404 ends the
\* probing: its template is cached, no later template is requested and the
\* task ends in error.
C15_ErrorStatusEndsProbing ==
    \A c \in DOMAIN calls :
       LET probes == Probes(calls[c])
       IN \A i \in DOMAIN probes :
             PathExists(probes[i].ans) /\ ~Ok(probes[i].ans) =>
                /\ Len(probes) = i
                /\ pathCache[calls[c].baseUrl] = probes[i].tpl
                /\ calls[c].settled = "resolved"
                /\ tasks[calls[c].task].status = "error"

\* C13: whatever the worker's dispatches and the dialog's model checks do
\* concurrently, a cache entry for a baseUrl is a template some request for
\* that baseUrl was answered on with a status other than 404.
C13_CacheConfirmed ==
    \A b \in BaseUrls :
       pathCache[b] # NoTemplate =>
          \/ \E c \in DOMAIN calls :
                /\ calls[c].baseUrl = b
                /\ \E i \in DOMAIN calls[c].reqs :
                      /\ calls[c].reqs[i].tpl = pathCache[b]
                      /\ PathExists(calls[c].reqs[i].ans)
          \/ \E i \in DOMAIN checks :
                checks[i].baseUrl = b /\ checks[i].hit = pathCache[b]

\* a dispatch and a model check both wrote the entry of the same baseUrl, the
\* dialog last, with different templates
C13_Witness ==
    \E c \in DOMAIN calls, i \in DOMAIN checks :
       /\ calls[c].baseUrl = checks[i].baseUrl
       /\ calls[c].found # NoTemplate
       /\ checks[i].hit = pathCache[checks[i].baseUrl]
       /\ checks[i].hit # calls[c].found

\* SpecSync: one task and one successful run of it on a surface where further
\* placeholders can be created for the task and the board can be cleared;
\* the replace is that of either version of the placeholder module
InitSync ==
    /\ InitWith([apiKey : {TRUE}, baseUrl : {OpenRouterUrl}])
    /\ pathCache = [b \in BaseUrls |-> NoTemplate]

NextSync ==
    \/ \E src \in SrcChoices : tasks = << >> /\ CreateTask(src, MaxTasks)
    \/ SetBoard
    \/ \E t \in DOMAIN tasks : AddPlaceholder(t)
    \/ CleanBoard
    \/ calls = << >> /\ Submit(1, MaxCalls)
    \/ \E c \in DOMAIN calls : Timer500(c)
    \/ \E c \in DOMAIN calls : OpenRouterAnswer(c, Answer(ORImage("U1")))
    \/ \E c \in DOMAIN calls : Timer100(c)
    \/ \E c \in DOMAIN calls : ImageLoaded(c, TRUE, FALSE, {})
    \/ \E c \in DOMAIN calls : ReplaceFirst(c)
    \/ \E c \in DOMAIN calls : ArrowTimer(c, {})

SpecSync == InitSync /\ [][NextSync]_vars

\* SpecReplace: one task and one successful run of it; the image may fail to
\* load, its insertion may throw and any placeholder may resist deletion
NextReplace ==
    \/ \E src \in SrcChoices : tasks = << >> /\ CreateTask(src, MaxTasks)
    \/ SetBoard
    \/ \E t \in DOMAIN tasks : AddPlaceholder(t)
    \/ CleanBoard
    \/ calls = << >> /\ Submit(1, MaxCalls)
    \/ \E c \in DOMAIN calls : Timer500(c)
    \/ \E c \in DOMAIN calls : OpenRouterAnswer(c, Answer(ORImage("U1")))
    \/ \E c \in DOMAIN calls : Timer100(c)
    \/ \E c \in DOMAIN calls, l \in BOOLEAN, f \in BOOLEAN :
          \E st \in SUBSET Range(calls[c].phs) : ImageLoaded(c, l, f, st)
    \/ \E c \in DOMAIN calls : ArrowTimer(c, {})

SpecReplace == InitSync /\ [][NextReplace]_vars

\* SpecGone: one task submitted with the board set; while its run is
\* suspended the user may clear the board
NextGone ==
    \/ \E src \in SrcChoices : tasks = << >> /\ CreateTask(src, MaxTasks)
    \/ SetBoard
    \/ board /\ calls = << >> /\ Submit(1, MaxCalls)
    \/ (\E c \in DOMAIN calls : calls[c].settled = "no") /\ CleanBoard
    \/ \E c \in DOMAIN calls : Timer500(c)
    \/ \E c \in DOMAIN calls, a \in FewORAnswers : OpenRouterAnswer(c, a)
    \/ SurfaceSteps

SpecGone == InitSync /\ [][NextGone]_vars

\* SpecRefusal: one task submitted with the board set, its request answered
\* with an image, a refusal or another error; no surface operation fails
NextRefusal ==
    \/ \E src \in SrcChoices : tasks = << >> /\ CreateTask(src, MaxTasks)
    \/ SetBoard
    \/ \E t \in DOMAIN tasks : AddPlaceholder(t)
    \/ board /\ calls = << >> /\ Submit(1, MaxCalls)
    \/ \E c \in DOMAIN calls : Timer500(c)
    \/ \E c \in DOMAIN calls, a \in Answers \ {Answer(R404)} : CachedResponse(c, a)
    \/ \E c \in DOMAIN calls, a \in ORAnswers : OpenRouterAnswer(c, a)
    \/ \E c \in DOMAIN calls : Timer100(c)
    \/ \E c \in DOMAIN calls : ImageLoaded(c, TRUE, FALSE, {})
    \/ \E c \in DOMAIN calls : ArrowTimer(c, {})
    \/ \E c \in DOMAIN calls : Refusal(c, FALSE, {})

SpecRefusal == InitNormalize /\ [][NextRefusal]_vars

\* SpecArrow: one task created from one or two source images and one
\* successful run of it; any connector insertion may throw, and the user may
\* clear the board while the run is suspended
ArrowSrc == {<<1>>, <<1, 2>>, <<2, 1>>}

NextArrow ==
    \/ tasks = << >> /\ Len(children) < 2 /\ AddImage
    \/ \E src \in ArrowSrc :
          tasks = << >> /\ Range(src) \subseteq NodeIds(children)
          /\ CreateTask(src, MaxTasks)
    \/ SetBoard
    \/ board /\ calls = << >> /\ Submit(1, MaxCalls)
    \/ (\E c \in DOMAIN calls : calls[c].pc # "done") /\ CleanBoard
    \/ \E c \in DOMAIN calls : Timer500(c)
    \/ \E c \in DOMAIN calls : OpenRouterAnswer(c, Answer(ORImage("U1")))
    \/ \E c \in DOMAIN calls : Timer100(c)
    \/ \E c \in DOMAIN calls : ImageLoaded(c, TRUE, FALSE, {})
    \/ \E c \in DOMAIN calls :
          \E fl \in SUBSET Range(tasks[calls[c].task].src) : ArrowTimer(c, fl)

SpecArrow == InitSync /\ [][NextArrow]_vars

\* SpecStore: the task store alone: tasks are created and updateTaskStatus
\* is called with the ids of stored tasks and with ids the store does not hold
StoreUpdates ==
    {[progress |-> 2], [error |-> TransportError], [url |-> <<"U1">>, progress |-> 10]}

NextStore ==
    \/ CreateTask(<< >>, MaxTasks)
    \/ \E t \in TaskIds, st \in {"generating", "completed", "error"},
          up \in StoreUpdates : StoreUpdate(t, st, up)

SpecStore == InitSync /\ [][NextStore]_vars

\* SpecProvider: one run under every base URL, from an empty path cache or
\* from one that holds a template for the base URL
InitProvider ==
    /\ InitWith([apiKey : {TRUE}, baseUrl : AllUrls])
    /\ pathCache \in {[b \in AllUrls |-> IF b = settings.baseUrl THEN k ELSE NoTemplate] :
                          k \in {NoTemplate, 1}}

NextProvider ==
    \/ tasks = << >> /\ CreateTask(<< >>, MaxTasks)
    \/ calls = << >> /\ Submit(1, MaxCalls)
    \/ \E c \in DOMAIN calls : Timer500(c)
    \/ \E c \in DOMAIN calls, a \in PathAnswers : CachedResponse(c, a)
    \/ \E c \in DOMAIN calls, a \in PathAnswers : ProbeResponse(c, a)
    \/ \E c \in DOMAIN calls : OpenRouterAnswer(c, Answer(ORImage("U1")))

SpecProvider == InitProvider /\ [][NextProvider]_vars

\* the runs that ended on a response: [c, r, chat, task]
Normalized ==
    {[c |-> c, r |-> calls[c].resp.r,
      chat |-> Includes(calls[c].baseUrl, "openrouter.ai"),
      task |-> tasks[calls[c].task]] :
        c \in {d \in DOMAIN calls :
                  calls[d].settled = "resolved" /\ ~calls[d].resp.throw}}

\* a vendor-native success body with a candidate
HasCandidate(n) ==
    ~n.chat /\ Ok(n.r.status) /\ n.r.parses /\ n.r.candidates # << >>

\* C16: a response stopped for prohibited content and one stopped for safety
\* end the task with two different errors in what the callback received.
C16_RefusalDistinct ==
    \A n \in Normalized :
       HasCandidate(n) =>
          /\ n.r.candidates[1].finishReason = "PROHIBITED_CONTENT" =>
                n.task.status = "error" /\ n.task.error = RefusalText
          /\ n.r.candidates[1].finishReason = "SAFETY" =>
                /\ n.task.status = "error"
                /\ n.task.error.kind = "SAFETY_BLOCKED:"
                /\ n.task.error # RefusalText

\* a run ended on a prohibited-content response that also carried an image
C16_Witness ==
    \E n \in Normalized :
       /\ HasCandidate(n)
       /\ n.r.candidates[1].finishReason = "PROHIBITED_CONTENT"
       /\ n.r.candidates[1].parts = <<Part("A", "", "", "", "")>>
       /\ n.task.error = RefusalText

StatusClass(status) ==
    IF status \in {401, 403} THEN "auth"
    ELSE IF status = 429 THEN "rate"
    ELSE IF status >= 500 /\ status <= 599 THEN "server"
    ELSE "other"

\* the error a response of the provider kind is normalized to
ErrorOf(chat, r) ==
    IF chat THEN OpenRouterResponse(r).error ELSE ProcessApiResponse(r).error

\* C17: the terminal error of a run that ended on a 401/403, 429 or 5xx
\* response tells the status class: no response of another of the three
\* classes, from the same kind of provider, gives the same error.
C17_StatusClass ==
    \A n \in Normalized :
       ~Ok(n.r.status) /\ StatusClass(n.r.status) # "other" =>
          /\ n.task.status = "error"
          /\ \A r \in IF n.chat THEN ChatResponses ELSE NativeResponses :
                ~Ok(r.status)
                /\ StatusClass(r.status) \notin {"other", StatusClass(n.r.status)}
                => ErrorOf(n.chat, r) # n.task.error

\* the indexes of the parts that carry inline data
Payloads(parts) ==
    {i \in DOMAIN parts : parts[i].camel # "" \/ parts[i].snake # ""}

\* a vendor-native success body that is scanned for an image
Scanned(n) ==
    /\ HasCandidate(n)
    /\ n.r.candidates[1].finishReason \notin {"SAFETY", "PROHIBITED_CONTENT"}

Texts(parts) == {i \in DOMAIN parts : parts[i].text # ""}

\* C19: a success response without an image gives the text-only error built
\* from its first text part when it has one and the malformed-response error
\* otherwise.
C19_TextOrMalformed ==
    \A n \in Normalized :
       /\ ~n.chat /\ Ok(n.r.status) /\ n.r.parses
          /\ (n.r.candidates # << >> => Scanned(n) /\ Payloads(n.r.candidates[1].parts) = {}) =>
             LET parts == IF n.r.candidates = << >> THEN << >>
                          ELSE n.r.candidates[1].parts
             IN /\ n.task.status = "error"
                /\ n.task.error =
                      IF Texts(parts) = {} THEN Err("Malformed", 0, << >>)
                      ELSE Err("TextOnly", 0,
                               <<parts[CHOOSE i \in Texts(parts) :
                                          \A k \in Texts(parts) : i <= k].text>>)
       /\ n.chat /\ Ok(n.r.status) /\ n.r.parses
          /\ (n.r.choices # << >> /\ n.r.choices[1].hasMessage =>
                 /\ (n.r.choices[1].images = << >> \/ n.r.choices[1].images[1] = "")
                 /\ n.r.choices[1].content \in {"", "text"}) =>
             /\ n.task.status = "error"
             /\ IF n.r.choices # << >> /\ n.r.choices[1].hasMessage
                   /\ n.r.choices[1].content = "text"
                THEN n.task.error.kind = "OpenRouterTextOnly" /\ n.task.error.text # << >>
                ELSE n.task.error = Err("OpenRouterMalformed", 0, << >>)

\* C20: a replace called with N >= 1 registered placeholders on the surface
\* leaves none of them on the surface or in the registry and returns the id of
\* the one node it added; a replace called with none returns no id, settles
\* the run and changes neither the surface nor the registry.
C20_ReplaceAll ==
    [][\A c \in DOMAIN calls :
          /\ calls[c].pc = "wait100" /\ calls'[c].pc # "wait100"
             /\ FindAllPlaceholdersByTaskId(Surface, calls[c].task) = << >> =>
                /\ calls'[c].newImageId = 0
                /\ calls'[c].settled = "resolved"
                /\ children' = children
                /\ registry' = registry
          /\ calls[c].pc \in {"wait100", "imgLoad"}
             /\ calls'[c].pc \notin {"wait100", "imgLoad"}
             /\ calls'[c].phs # << >> =>
                /\ \A id \in Range(calls'[c].phs) :
                      id \notin NodeIds(children') /\ id \notin DOMAIN registry'
                /\ NodeIds(children') \ NodeIds(children) = {calls'[c].newImageId}
      ]_vars

\* C21: whichever placeholders resist deletion during a replace, every other
\* placeholder found for the task leaves the surface, every one of them is
\* unregistered, and the id returned is that of the node the replace added.
C21_BestEffort ==
    [][\A c \in DOMAIN calls : \A st \in SUBSET Range(calls[c].phs) :
          ImageLoaded(c, TRUE, FALSE, st) =>
             /\ \A id \in Range(calls[c].phs) \ st : id \notin NodeIds(children')
             /\ \A id \in Range(calls[c].phs) : id \notin DOMAIN registry'
             /\ calls'[c].newImageId = nextNode
             /\ NodeIds(children') \ NodeIds(children) = {nextNode}
      ]_vars

\* a replace returned its new node while the first of two placeholders stayed
\* on the surface and the second did not
C21_Witness ==
    \E c \in DOMAIN calls :
       /\ calls[c].newImageId # 0
       /\ Len(calls[c].phs) = 2
       /\ calls[c].phs[1] \in NodeIds(children)
       /\ calls[c].phs[2] \notin NodeIds(children)
       /\ \A id \in Range(calls[c].phs) : id \notin DOMAIN registry
       /\ Len(children) = 3

\* C22: once the replace of a run has looked up the placeholders of its task,
\* every registry record of that task refers to a node that is on the surface.
C22_NoStaleRecord ==
    [][\A c \in DOMAIN calls :
          calls[c].pc = "wait100" /\ calls'[c].pc # "wait100" =>
             \A id \in DOMAIN registry' :
                registry'[id] = calls[c].task => id \in NodeIds(children')
      ]_vars

\* the progress reports a step adds to the callback log of task t
NewReports(t) ==
    {i \in DOMAIN cbLog'[t] : i > Len(cbLog[t]) /\ cbLog'[t][i].status = "generating"}

\* C23: a progress update that finds several placeholders registered to the
\* task leaves exactly one of them on the surface and in the registry, the
\* one created last.
C23_KeepsNewest ==
    [][\A t \in DOMAIN tasks :
          LET found == FindAllPlaceholdersByTaskId(Surface, t)
          IN board /\ NewReports(t) # {} /\ Len(found) > 1 =>
                \A i \in DOMAIN found :
                   /\ found[i].id \in NodeIds(children') <=> i = Len(found)
                   /\ found[i].id \in DOMAIN registry' <=> i = Len(found)
      ]_vars

\* C24: while no placeholder of its task is on the surface, a step of a
\* suspended run leaves the nodes of the surface as they are and does not
\* throw.
C24_SafeNoOp ==
    [][\A c \in DOMAIN calls :
          /\ calls[c].settled = "no"
          /\ FindAllPlaceholdersByTaskId(Surface, calls[c].task) = << >>
          /\ calls'[c] # calls[c]
          => /\ children' = children
             /\ calls'[c].settled \in {"no", "resolved"}
      ]_vars

\* the nodes on the surface that are registered under a label
Registered(ch, reg, label) ==
    {ch[i].id : i \in {j \in DOMAIN ch :
                          ch[j].id \in DOMAIN reg /\ reg[ch[j].id] = label}}

NewConnectors(id) ==
    {i \in DOMAIN children' :
        /\ children'[i].id \notin NodeIds(children)
        /\ children'[i].type = "line"
        /\ children'[i].task = id}

Running(cs) == {c \in DOMAIN cs : cs[c].settled = "no"}

\* C27: processingQueue holds exactly the task ids of the running calls, as
\* many ids as there are running calls, and a call for a task without a
\* running call is accepted whatever other tasks are in flight.
C27_Independent ==
    [][/\ processingQueue' = {calls'[c].task : c \in Running(calls')}
       /\ Cardinality(processingQueue') = Cardinality(Running(calls'))
       /\ Len(calls') > Len(calls) =>
             LET c == Len(calls')
             IN (\A d \in Running(calls) : calls[d].task # calls'[c].task) =>
                   /\ calls'[c].settled # "noop"
                   /\ \E i \in DOMAIN cbLog'[calls'[c].task] :
                         cbLog'[calls'[c].task][i].call = c
      ]_vars

\* two tasks are in flight at once
C27_Witness ==
    /\ Cardinality(processingQueue) = 2
    /\ \E c, d \in Running(calls) : calls[c].task # calls[d].task

\* the ids the store holds
Stored(T) == {T[i].id : i \in DOMAIN T}

\* C28: reading an id the store does not hold gives nothing, and an
\* updateTaskStatus for such an id leaves the store as it was.
C28_UnknownId ==
    [][\A t \in TaskIds \ Stored(tasks) :
          /\ GetTask(tasks, t) = << >>
          /\ cbLog'[t] # cbLog[t] => tasks' = tasks
      ]_vars

\* the store holds a task that has been updated and was called with an id
\* it does not hold
C28_Witness ==
    \E t \in TaskIds \ Stored(tasks) :
       /\ cbLog[t] # << >>
       /\ \E i \in DOMAIN tasks : tasks[i].status = "completed"

\* C29: every request of a run whose baseUrl contains the chat proxy's domain
\* has the chat-messages shape with bearer authorization and the attribution
\* headers; otherwise it has the vendor-native shape, with the vendor key
\* header and no bearer when the baseUrl contains the vendor's domain, and
\* with bearer authorization and no vendor key header for any other baseUrl.
C29_ProviderKind ==
    \A c \in DOMAIN calls : \A i \in DOMAIN calls[c].sent :
       LET q == calls[c].sent[i]
           b == calls[c].baseUrl
       IN IF Includes(b, "openrouter.ai")
          THEN /\ q.shape = "messages"
               /\ {"Authorization", "HTTP-Referer", "X-Title"} \subseteq q.headers
               /\ "x-goog-api-key" \notin q.headers
          ELSE IF Includes(b, "googleapis.com")
          THEN /\ q.shape = "contents"
               /\ "x-goog-api-key" \in q.headers
               /\ "Authorization" \notin q.headers
          ELSE /\ q.shape = "contents"
               /\ "Authorization" \in q.headers
               /\ "x-goog-api-key" \notin q.headers

\* a run against a relay whose path names the vendor's domain has probed two
\* templates, the second with the vendor key header
C29_Witness ==
    \E c \in DOMAIN calls :
       /\ calls[c].baseUrl = RelayOfOfficialUrl
       /\ Len(calls[c].sent) = 2
       /\ "x-goog-api-key" \in calls[c].sent[2].headers

\* C30: a call made while no call for its task is running is accepted, in
\* whatever status the task is: it reports generating first and, with an API
\* key configured, sends its request once its 500 ms wait is over.
C30_OnlyGuard ==
    \A c \in DOMAIN calls :
       calls[c].during = {} =>
          /\ calls[c].settled # "noop"
          /\ CallLog(calls[c].task, c) # << >>
          /\ CallLog(calls[c].task, c)[1].status = "generating"
          /\ settings.apiKey /\ calls[c].pc \notin {"start", "wait500"} =>
                calls[c].sent # << >>

\* a task completed by one run was submitted again and the second run has
\* sent its request
C30_Witness ==
    \E c, d \in DOMAIN calls :
       /\ d < c
       /\ calls[d].task = calls[c].task
       /\ calls[d].settled = "resolved" /\ calls[d].url # NoUrl
       /\ calls[c].during = {}
       /\ calls[c].sent # << >>

\* SpecShared: several tasks, one run each, on one board; every request is
\* answered with an image and no surface operation fails; a run suspended
\* between the drawing of its image and its resumption lets other runs step
NextShared ==
    \/ \E src \in SrcChoices : CreateTask(src, MaxTasks)
    \/ SetBoard
    \/ board /\ Submit(Len(calls) + 1, MaxCalls)
    \/ \E c \in DOMAIN calls : Timer500(c)
    \/ \E c \in DOMAIN calls : OpenRouterAnswer(c, Answer(ORImage("U1")))
    \/ \E c \in DOMAIN calls : Timer100(c)
    \/ \E c \in DOMAIN calls : OnLoad(c)
    \/ \E c \in DOMAIN calls : AwaitImageLoad(c, {})
    \/ \E c \in DOMAIN calls : ArrowTimer(c, {})

SpecShared == InitSync /\ [][NextShared]_vars

\* the nodes ever given the id: ids are never reused, so at most one
NodeOf(id) == {children[i] : i \in {j \in DOMAIN children : children[j].id = id}}

Stepping ==
    {c \in DOMAIN calls' : c \notin DOMAIN calls \/ calls'[c] # calls[c]}

\* C32: whenever a node registered to a task leaves the surface or loses its
\* registry record, the step is one of a run of that very task: no progress
\* update, replace or refusal visual of one task removes or unregisters a
\* node registered to another task, however the tasks interleave.
C32_OwnNodesOnly ==
    [][\A id \in DOMAIN registry :
          (id \notin DOMAIN registry'
             \/ (id \in NodeIds(children) /\ id \notin NodeIds(children')))
          => \E c \in Stepping : calls'[c].task = registry[id]]_vars

\* a run has replaced the placeholder of its task, which is gone, while the
\* placeholder of another task with a running call is still on the surface
\* and registered
C32_Witness ==
    \E c1 \in DOMAIN calls, c2 \in DOMAIN calls :
       /\ calls[c1].task # calls[c2].task
       /\ calls[c1].newImageId # 0
       /\ Registered(children, registry, calls[c1].task) = {}
       /\ calls[c2].settled = "no"
       /\ Registered(children, registry, calls[c2].task) # {}

\* what a call has reported for a task, in a given callback log
LogOf(log, t, c) == SelectSeq(log[t], LAMBDA e : e.call = c)

LastStatus(log, t, c) ==
    IF LogOf(log, t, c) = << >> THEN "none"
    ELSE LogOf(log, t, c)[Len(LogOf(log, t, c))].status

\* C33: a run that is about to replace the placeholder, or is past that, has
\* reported completed as its last status; once a run has reported completed
\* no step makes it report again, and as long as the run lasts the task stays
\* completed with its url, whether the replace finds nothing, throws, or the
\* connector fails.
C33_CompletedIsFinal ==
    [][\A c \in DOMAIN calls :
          LET t == calls[c].task
          IN /\ calls'[c].pc \in {"wait100", "imgLoad", "arrowTimer"}
                => LastStatus(cbLog', t, c) = "completed"
             /\ LastStatus(cbLog, t, c) = "completed"
                => /\ LogOf(cbLog', t, c) = LogOf(cbLog, t, c)
                   /\ tasks'[t].status = "completed"
                   /\ tasks'[t].url = calls[c].url
                   /\ tasks'[t].url # NoUrl]_vars

\* a run reported completed and then its replace found no placeholder or
\* threw: it settled without a new image, the task still completed
C33_Witness ==
    \E c \in DOMAIN calls :
       /\ LastStatus(cbLog, calls[c].task, c) = "completed"
       /\ calls[c].url # NoUrl
       /\ calls[c].settled = "resolved"
       /\ calls[c].touched
       /\ calls[c].newImageId = 0
       /\ board
       /\ tasks[calls[c].task].status = "completed"

\* SpecMarker: one run whose single request is answered with a response of
\* any class, among them failures whose text holds the marker string: a
\* provider error message, the error of a success body, the text of a
\* text-only response
RErrorMessage(m) == Resp(400, TRUE, m, "", << >>, "")
RBodyError(m) == Resp(200, TRUE, "", "", << >>, m)
RTextOnly(t) ==
    Resp(200, TRUE, "", "", <<Candidate("STOP", <<Part("", "", "", "", t)>>)>>, "")

MarkerTexts == {"T", Marker}

MarkerAnswers ==
    {Thrown, Answer(RProhibited), Answer(RImage("U1")), Answer(R429)}
    \cup {Answer(RErrorMessage(m)) : m \in MarkerTexts}
    \cup {Answer(RBodyError(m)) : m \in MarkerTexts}
    \cup {Answer(RTextOnly(m)) : m \in MarkerTexts}

MarkerChatAnswers ==
    {Thrown, Answer(ORImage("U1"))}
    \cup {Answer(ORResp(400, TRUE, m, << >>)) : m \in MarkerTexts}

NextMarker ==
    \/ \E src \in SrcChoices : tasks = << >> /\ CreateTask(src, MaxTasks)
    \/ SetBoard
    \/ calls = << >> /\ Submit(1, MaxCalls)
    \/ \E c \in DOMAIN calls : Timer500(c)
    \/ \E c \in DOMAIN calls, a \in MarkerAnswers : CachedResponse(c, a)
    \/ \E c \in DOMAIN calls, a \in MarkerChatAnswers : OpenRouterAnswer(c, a)
    \/ \E c \in DOMAIN calls : Timer100(c)
    \/ \E c \in DOMAIN calls : ImageLoaded(c, TRUE, FALSE, {})
    \/ \E c \in DOMAIN calls : ArrowTimer(c, {})
    \/ \E c \in DOMAIN calls : Refusal(c, FALSE, {})

SpecMarker == InitNormalize /\ [][NextMarker]_vars

\* the answer is a vendor-native success body whose first candidate stopped
\* for prohibited content
ExplicitProhibition(call) ==
    /\ ~call.resp.throw
    /\ ~Includes(call.baseUrl, "openrouter.ai")
    /\ Ok(call.resp.r.status) /\ call.resp.r.parses
    /\ call.resp.r.candidates # << >>
    /\ call.resp.r.candidates[1].finishReason = "PROHIBITED_CONTENT"

\* C34: a run whose task got the refusal error text, or the refusal visual,
\* was answered with a response whose first candidate has the prohibition
\* stop reason; a text-only response, a provider error message or a transport
\* error never gives the refusal outcome, whatever text it carries.
C34_RefusalOnlyWhenProhibited ==
    \A c \in DOMAIN calls :
       (/\ calls[c].reqs # << >>
        /\ \/ tasks[calls[c].task].error = RefusalText
           \/ Registered(children, registry, ErrorLabel(calls[c].task)) # {})
       => ExplicitProhibition(calls[c])

\* C35: when the fetch against the cached template throws, the dispatch
\* makes no other request, the cache entry stays as it was, and the run ends
\* there with the task in error.
C35_CachedTransportError ==
    \A c \in DOMAIN calls :
       LET reqs == calls[c].reqs
       IN reqs # << >> /\ reqs[1].via = "cache" /\ reqs[1].ans = Threw =>
             /\ Len(reqs) = 1
             /\ pathCache[calls[c].baseUrl] = reqs[1].tpl
             /\ calls[c].settled = "resolved"
             /\ tasks[calls[c].task].status = "error"
             /\ tasks[calls[c].task].error = TransportError

\* the fetch against cached template 3 threw
C35_Witness ==
    \E c \in DOMAIN calls :
       /\ calls[c].reqs = <<[via |-> "cache", tpl |-> 3, ans |-> Threw]>>
       /\ pathCache[calls[c].baseUrl] = 3
       /\ tasks[calls[c].task].status = "error"

\* C36: with no API key configured no step writes the path cache, and every
\* run has made no request, has reported generating 0.2 and then error and
\* nothing else, and has settled with its task id out of processingQueue.
C36_NoApiKey ==
    [][~settings.apiKey =>
          /\ pathCache' = pathCache
          /\ \A c \in DOMAIN calls' :
                LET t == calls'[c].task
                IN calls'[c].settled # "noop" =>
                      /\ calls'[c].reqs = << >>
                      /\ LogOf(cbLog', t, c) =
                            <<[call |-> c, status |-> "generating", progress |-> 2],
                              [call |-> c, status |-> "error", progress |-> NoProgress]>>
                      /\ tasks'[t].status = "error"
                      /\ tasks'[t].error = NoApiKey
                      /\ calls'[c].settled = "resolved"
                      /\ t \notin processingQueue']_vars

\* a run made with the board set, no API key and a template in the path
\* cache for the configured base URL has ended
C36_Witness ==
    \E c \in DOMAIN calls :
       /\ ~settings.apiKey
       /\ board
       /\ pathCache[settings.baseUrl] # NoTemplate
       /\ calls[c].settled = "resolved"
       /\ tasks[calls[c].task].error = NoApiKey

\* SpecCandidates: one run whose request against the cached template is
\* answered with a success body of one or two candidates, each with any stop
\* reason and with no part, an image part or a text part; the board may be set
FewPartLists ==
    {<< >>, <<Part("A", "", "", "", "")>>, <<Part("", "", "", "", "T")>>}

CandidateLists ==
    {<<Candidate(f, ps)>> : f \in FinishReasons, ps \in FewPartLists}
    \cup {<<Candidate(f, ps), Candidate(g, qs)>> :
             f \in FinishReasons, ps \in FewPartLists,
             g \in FinishReasons, qs \in FewPartLists}

InitCandidates ==
    /\ InitWith([apiKey : {TRUE}, baseUrl : {ProxyUrl}])
    /\ pathCache = [b \in BaseUrls |-> IF b = ProxyUrl THEN 1 ELSE NoTemplate]

NextCandidates ==
    \/ tasks = << >> /\ CreateTask(<< >>, MaxTasks)
    \/ calls = << >> /\ Submit(1, MaxCalls)
    \/ \E c \in DOMAIN calls : Timer500(c)
    \/ \E c \in DOMAIN calls, cs \in CandidateLists :
          CachedResponse(c, Answer(Resp(200, TRUE, "", "", cs, "")))
    \/ SetBoard
    \/ \E c \in DOMAIN calls : Timer100(c)
    \/ \E c \in DOMAIN calls : ImageLoaded(c, TRUE, FALSE, {})
    \/ \E c \in DOMAIN calls : Refusal(c, FALSE, {})

SpecCandidates == InitCandidates /\ [][NextCandidates]_vars

\* C37: a run answered with a vendor-native success body whose first
\* candidate stopped for safety, or for prohibited content, ends in the error
\* of that stop reason and with no url, whatever image parts the first or a
\* later candidate carries.
C37_StopReasonFirst ==
    \A n \in Normalized :
       HasCandidate(n) /\ n.r.candidates[1].finishReason # "STOP" =>
          /\ n.task.status = "error"
          /\ n.task.url = NoUrl
          /\ n.task.error =
                IF n.r.candidates[1].finishReason = "SAFETY"
                THEN Err("SAFETY_BLOCKED:", 0, << >>) ELSE RefusalText

\* the first candidate stopped for safety and carries an image, the second
\* one carries an image too: the task ended in the safety error
C37_Witness ==
    \E n \in Normalized :
       /\ n.r.candidates =
             <<Candidate("SAFETY", <<Part("A", "", "", "", "")>>),
               Candidate("STOP", <<Part("A", "", "", "", "")>>)>>
       /\ n.task.error = Err("SAFETY_BLOCKED:", 0, << >>)

\* SpecDispatch: one run without a board, under every configuration and
\* from any path cache, where a step that can be taken is taken in the end:
\* the timer fires and every request is answered or fails
NextDispatch ==
    \/ tasks = << >> /\ CreateTask(<< >>, MaxTasks)
    \/ calls = << >> /\ Submit(1, MaxCalls)
    \/ \E c \in DOMAIN calls : Timer500(c)
    \/ \E c \in DOMAIN calls, a \in Answers : CachedResponse(c, a)
    \/ \E c \in DOMAIN calls, a \in Answers : ProbeResponse(c, a)
    \/ \E c \in DOMAIN calls, a \in ORAnswers : OpenRouterAnswer(c, a)

SpecDispatch == InitRun /\ [][NextDispatch]_vars /\ WF_vars(NextDispatch)

\* the call has a request in flight
Dispatching(call) == call.pc \in {"orFetch", "cachedFetch", "probe"}

\* C38: a dispatch to the chat-completion proxy makes exactly one request, to
\* the fixed path; a vendor-native dispatch makes at most one request against
\* the cached template, its first, and then at most one per candidate
\* template, in the order of the list, so at most 1 + NumTemplates; and every
\* dispatch whose requests are answered or fail comes to an end.
C38_BoundedRequests ==
    /\ [](\A c \in DOMAIN calls :
            LET reqs == calls[c].reqs
            IN IF Includes(calls[c].baseUrl, "openrouter.ai")
               THEN /\ Len(reqs) <= 1
                    /\ \A i \in DOMAIN reqs : reqs[i].via = "fixed"
                    /\ (\E e \in Range(cbLog[calls[c].task]) :
                           e.call = c /\ e.progress = 6) => Len(reqs) = 1
               ELSE /\ Len(reqs) <= 1 + NumTemplates
                    /\ \A i \in DOMAIN reqs :
                          /\ reqs[i].via \in {"cache", "probe"}
                          /\ reqs[i].via = "cache" => i = 1
                          /\ reqs[i].tpl \in Templates
                    /\ \A i, j \in DOMAIN reqs :
                          reqs[i].via = "probe" /\ i < j => reqs[i].tpl < reqs[j].tpl)
    /\ \A c \in 1..MaxCalls :
          (c \in DOMAIN calls /\ Dispatching(calls[c]))
             ~> (c \in DOMAIN calls /\ ~Dispatching(calls[c]))

\* a dispatch that found template 1 cached made six requests: the cached
\* template, then every candidate template, the first one again; it is over
C38_Witness ==
    \E c \in DOMAIN calls :
       /\ Len(calls[c].reqs) = 1 + NumTemplates
       /\ calls[c].reqs[1].via = "cache" /\ calls[c].reqs[1].tpl = 1
       /\ calls[c].reqs[2].via = "probe" /\ calls[c].reqs[2].tpl = 1
       /\ calls[c].settled = "resolved"

\* SpecChat: one run under every base URL that holds openrouter.ai, while the
\* settings dialog checks the model under the same base URL; the path cache
\* starts empty or with any template for the base URL
ChatUrls == {b \in AllUrls : Includes(b, "openrouter.ai")}

InitChat ==
    /\ InitWith([apiKey : {TRUE}, baseUrl : ChatUrls])
    /\ pathCache \in {[b \in AllUrls |-> IF b = settings.baseUrl THEN k ELSE NoTemplate] :
                          k \in {NoTemplate, ChatTemplate} \cup Templates}

NextChat ==
    \/ tasks = << >> /\ CreateTask(<< >>, MaxTasks)
    \/ calls = << >> /\ Submit(1, MaxCalls)
    \/ \E c \in DOMAIN calls : Timer500(c)
    \/ \E c \in DOMAIN calls, a \in ORAnswers : OpenRouterAnswer(c, a)
    \/ StartCheck(settings.baseUrl, MaxCalls)
    \/ \E i \in DOMAIN checks, a \in DialogAnswers : CheckCached(i, a)
    \/ \E i \in DOMAIN checks, a \in DialogAnswers : CheckProbe(i, a)

SpecChat == InitChat /\ [][NextChat]_vars

\* C39: under a base URL that holds openrouter.ai every request of a run
\* goes to the fixed path, whatever the path cache holds for the base URL;
\* no step of the run changes the path cache; and a run whose request was
\* answered 404 has made that one request and has ended in error.
C39_ChatIgnoresCache ==
    [][\A c \in DOMAIN calls' :
          Includes(calls'[c].baseUrl, "openrouter.ai") =>
             /\ \A i \in DOMAIN calls'[c].reqs :
                   /\ calls'[c].reqs[i].via = "fixed"
                   /\ calls'[c].reqs[i].tpl = NoTemplate
             /\ c \in Stepping => pathCache' = pathCache
             /\ (calls'[c].reqs # << >> /\ calls'[c].reqs[1].ans = 404) =>
                   /\ Len(calls'[c].reqs) = 1
                   /\ calls'[c].settled = "resolved"
                   /\ tasks'[calls'[c].task].status = "error"]_vars

\* the path cache holds a template for the base URL, written by the dialog
\* or left by an earlier session, and the run's one request, to the fixed
\* path, was answered 404
C39_Witness ==
    \E c \in DOMAIN calls :
       /\ pathCache[calls[c].baseUrl] # NoTemplate
       /\ calls[c].reqs = <<[via |-> "fixed", tpl |-> NoTemplate, ans |-> 404]>>
       /\ tasks[calls[c].task].status = "error"

\* ------------------------------------------------ cleanup of placeholders
\* A string is a sequence of tokens: a word, a run of digits (its number) or
\* the separator "-".
Word(w) == [word |-> w, num |-> 0]
Digits(n) == [word |-> "", num |-> n]
Dash == Word("-")

\* a JavaScript number: not-a-number or an integer
NaN == [nan |-> TRUE, v |-> 0]
Number(v) == [nan |-> FALSE, v |-> v]
Minus(a, b) == IF a.nan \/ b.nan THEN NaN ELSE Number(a.v - b.v)
GreaterThan(a, b) == ~a.nan /\ ~b.nan /\ a.v > b.v

\* Date.now() when the task was created: tasks are created one after the
\* other, the n-th at tick n
CreatedAt(taskId) == taskId

\* `ai-gen-${Date.now()}-${++taskIdCounter.current}` of createTask
FormatTaskId(createdAt, counter) ==
    <<Word("ai"), Dash, Word("gen"), Dash, Digits(createdAt), Dash, Digits(counter)>>

\* the taskId string a registry record holds: the id of the task, or
\* `error_${taskId}` for a refusal visual
LabelString(label) ==
    IF label > 0 THEN FormatTaskId(CreatedAt(label), label)
    ELSE <<Word("error_")>> \o FormatTaskId(CreatedAt(0 - label), 0 - label)

\* str.split('-')
RECURSIVE Split(_, _, _)
Split(str, i, field) ==
    IF i > Len(str) THEN <<field>>
    ELSE IF str[i] = Dash THEN <<field>> \o Split(str, i + 1, << >>)
    ELSE Split(str, i + 1, Append(field, str[i]))

\* parseInt(str): the number of the leading digits, NaN without any
ParseInt(str) ==
    IF str # << >> /\ str[1].word = "" THEN Number(str[1].num) ELSE NaN

\* placeholdersToRemove of cleanupPlaceholders(board, maxAge) called at time now
Expired(s, now, maxAge) ==
    {s.ch[i].id : i \in {j \in DOMAIN s.ch :
        /\ s.ch[j].id \in DOMAIN s.reg
        /\ LET taskId == LabelString(s.reg[s.ch[j].id])
               taskCreatedAt == ParseInt(Split(taskId, 1, << >>)[2])
           IN GreaterThan(Minus(Number(now), taskCreatedAt), Number(maxAge))}}

\* the surface cleanupPlaceholders leaves
Cleaned(s, now, maxAge) ==
    LET placeholdersToRemove == Expired(s, now, maxAge)
    IN [s EXCEPT
          !.ch = SelectSeq(s.ch, LAMBDA node : node.id \notin placeholdersToRemove),
          !.reg = [n \in (DOMAIN s.reg) \ placeholdersToRemove |-> s.reg[n]]]

CleanupPlaceholders(now, maxAge) ==
    /\ now >= Len(tasks)
    /\ children' = Cleaned(Surface, now, maxAge).ch
    /\ registry' = Cleaned(Surface, now, maxAge).reg
    /\ UNCHANGED <<tasks, processingQueue, board, nextNode, pathCache, settings,
                   calls, cbLog, checks>>

\* SpecCleanup: tasks are created, further placeholders and user images are
\* put on the surface, and cleanupPlaceholders is called at any later time
\* with any maxAge
Times == 1..(MaxTasks + 2)
MaxAges == {0, 1}

NextCleanup ==
    \/ CreateTask(<< >>, MaxTasks)
    \/ \E t \in DOMAIN tasks : AddPlaceholder(t)
    \/ AddImage
    \/ \E now \in Times, maxAge \in MaxAges : CleanupPlaceholders(now, maxAge)

SpecCleanup == InitSync /\ [][NextCleanup]_vars

\* the nodes registered to a task created more than maxAge before now
Aged(now, maxAge) ==
    {id \in NodeIds(children) \cap DOMAIN registry :
        registry[id] > 0 /\ now - CreatedAt(registry[id]) > maxAge}

\* C40: cleanupPlaceholders(board, maxAge) takes from the surface and from
\* the registry every registered placeholder whose task was created more
\* than maxAge ago, and leaves every other node and record as it was.
C40_CleanupByAge ==
    \A now \in Times, maxAge \in MaxAges :
       now >= Len(tasks) =>
          /\ Cleaned(Surface, now, maxAge).ch =
                SelectSeq(children, LAMBDA node : node.id \notin Aged(now, maxAge))
          /\ Cleaned(Surface, now, maxAge).reg =
                [n \in (DOMAIN registry) \ Aged(now, maxAge) |-> registry[n]]

====
